---- MODULE Spec2Model ----
(***************************************************************************)
(* balog: a logger of fail2ban ban actions.                                *)
(*                                                                         *)
(* The model follows the latest variant of the program: database.go (the   *)
(* Event Store, the Location Cache, the aggregator and the renderers) and  *)
(* run.go (processSave, processReport, processMaintenance).                *)
(*                                                                         *)
(* Time is counted in days, the unit of every AddDate call of the program. *)
(* Errors are strings, nil being the absence of an error.                  *)
(***************************************************************************)
EXTENDS Integers, Sequences, FiniteSets, TLC

VARIABLES
    logs,       \* table of BanActionLog rows, in id order
    locations,  \* table of Location rows, in id order
    now,        \* the wall clock (time.Now()), in days
    procs,      \* concurrent `save' invocations: position and locals of each
    out         \* what the running command has done and printed so far

vars == <<logs, locations, now, procs, out>>

----------------------------------------------------------------------------
(* Bounds of the model *)

\* number of `save' commands of one run of the sequential specification
MaxSaves == 3
\* number of rows of a drawn Event Store (specification SpecReport)
MaxLogs == 3
\* days the clock may advance while reports are generated
MaxDrift == 1
\* number of `save' commands of one run of the specification SpecAll
MaxFewSaves == 2

(* Program constants *)

unknownLocation == "Unknown"
projectURL == "https://github.com/meinside/balog"
googleAIModel == "gemini-2.5-flash"

numDaysForReport1 == 7
numDaysForReport2 == 30
numDaysBeforeForOlderReport == 7

(* Values *)

\* a nil pointer, a NULL column
NULL == "<nil>"
\* a nil []byte, a nil *string
NoText == <<>>
\* a nil error
nil == "nil"
ErrStore == "store error"
ErrUnique == "UNIQUE constraint failed: locations.ip"
ErrMissingWhereClause == "WHERE conditions required"
ErrFetch == "geolocation request failed"

Protocols == {"ssh", "ftp"}
IPs == {"8.8.8.8", "1.2.3.4"}
CountryNames == {"Korea"}
APIKeys == {NULL, "key"}

\* what the geolocation provider may answer: a country, nothing, or an error
GeoReplies ==
    [CountryName : CountryNames \cup {""}, err : {nil}]
        \cup {[CountryName |-> "", err |-> ErrFetch]}

----------------------------------------------------------------------------
(* The tables *)

BanActionLog(id, protocol, createdAt, ip) ==
    [ID |-> id, Protocol |-> protocol, CreatedAt |-> createdAt, IP |-> ip,
     Location |-> NULL, DeletedAt |-> NULL]

Location(id, ip, countryName) ==
    [ID |-> id, IP |-> ip, CountryName |-> countryName]

\* the zero value of Location, what Find leaves when no row matches
ZeroLocation == Location(0, "", "")

\* NextID with the last id given again
NextIDReused(table) == IF table = <<>> THEN 1 ELSE Len(table)

\* AUTOINCREMENT primary key: rows are never removed from either table
NextID(table) == Len(table) + 1

\* the `unique' tag of Location.IP
UniqueIP(locs, ip) == \A i \in DOMAIN locs : locs[i].IP # ip

\* gorm.Config of OpenDB leaves AllowGlobalUpdate unset
AllowGlobalUpdate == FALSE

----------------------------------------------------------------------------
(* Event Store and Location Cache operations; ok = the storage answers *)

\* SaveBanAction with the row written although the storage reports a failure
SaveBanActionWrittenOnError(ls, protocol, ip, t, ok) ==
    IF ok
    THEN [logs |-> Append(ls, BanActionLog(NextID(ls), protocol, t, ip)),
          id |-> NextID(ls), err |-> nil]
    ELSE [logs |-> Append(ls, BanActionLog(NextID(ls), protocol, t, ip)),
          id |-> 0, err |-> ErrStore]

SaveBanAction(ls, protocol, ip, t, ok) ==
    IF ok
    THEN [logs |-> Append(ls, BanActionLog(NextID(ls), protocol, t, ip)),
          id |-> NextID(ls), err |-> nil]
    ELSE [logs |-> ls, id |-> 0, err |-> ErrStore]

\* UpdateBanActionLocation with the rows chosen by the IP of the event
UpdateBanActionLocationOfIP(ls, id, location, ok) ==
    IF ok
    THEN [logs |-> [i \in DOMAIN ls |->
                       IF /\ \E j \in DOMAIN ls : ls[j].ID = id /\ ls[j].IP = ls[i].IP
                          /\ ls[i].DeletedAt = NULL
                       THEN [ls[i] EXCEPT !.Location = location]
                       ELSE ls[i]],
          err |-> nil]
    ELSE [logs |-> ls, err |-> ErrStore]

UpdateBanActionLocation(ls, id, location, ok) ==
    IF ok
    THEN [logs |-> [i \in DOMAIN ls |->
                       IF ls[i].ID = id /\ ls[i].DeletedAt = NULL
                       THEN [ls[i] EXCEPT !.Location = location]
                       ELSE ls[i]],
          err |-> nil]
    ELSE [logs |-> ls, err |-> ErrStore]

\* LookupLocation with First in the place of Limit(1).Find: no row is an error
LookupLocationFirst(locs, ip, ok) ==
    IF ok
    THEN LET hits == SelectSeq(locs, LAMBDA r : r.IP = ip)
         IN  [result |-> IF hits = <<>> THEN ZeroLocation ELSE hits[1],
              err |-> IF hits = <<>> THEN "record not found" ELSE nil]
    ELSE [result |-> ZeroLocation, err |-> ErrStore]

LookupLocation(locs, ip, ok) ==
    IF ok
    THEN LET hits == SelectSeq(locs, LAMBDA r : r.IP = ip)
         IN  [result |-> IF hits = <<>> THEN ZeroLocation ELSE hits[1],
              err |-> nil]
    ELSE [result |-> ZeroLocation, err |-> ErrStore]

UpdateLocation(locs, ip, location, ok) ==
    IF ok
    THEN [locations |-> [i \in DOMAIN locs |->
                            IF locs[i].IP = ip
                            THEN [locs[i] EXCEPT !.CountryName = location]
                            ELSE locs[i]],
          err |-> nil]
    ELSE [locations |-> locs, err |-> ErrStore]

\* SaveLocation without the `unique' tag of Location.IP
SaveLocationNotUnique(locs, ip, location, ok) ==
    IF ~ok
    THEN [locations |-> locs, id |-> 0, err |-> ErrStore]
    ELSE [locations |-> Append(locs, Location(NextID(locs), ip, location)),
          id |-> NextID(locs), err |-> nil]

SaveLocation(locs, ip, location, ok) ==
    IF ~ok
    THEN [locations |-> locs, id |-> 0, err |-> ErrStore]
    ELSE IF ~UniqueIP(locs, ip)
    THEN [locations |-> locs, id |-> 0, err |-> ErrUnique]
    ELSE [locations |-> Append(locs, Location(NextID(locs), ip, location)),
          id |-> NextID(locs), err |-> nil]

ListUnknownIPs(locs, ok) ==
    IF ok
    THEN [result |-> SelectSeq(locs, LAMBDA r : r.CountryName = unknownLocation),
          err |-> nil]
    ELSE [result |-> <<>>, err |-> ErrStore]

\* Delete(&BanActionLog{}) names no row and no condition: without
\* AllowGlobalUpdate gorm refuses the statement with ErrMissingWhereClause;
\* with it, every live row gets its DeletedAt set (gorm.Model soft delete).
PurgeLogs(ls, t, ok) ==
    IF ~ok
    THEN [logs |-> ls, result |-> 0, err |-> ErrStore]
    ELSE IF ~AllowGlobalUpdate
    THEN [logs |-> ls, result |-> 0, err |-> ErrMissingWhereClause]
    ELSE [logs |-> [i \in DOMAIN ls |->
                       IF ls[i].DeletedAt = NULL
                       THEN [ls[i] EXCEPT !.DeletedAt = t] ELSE ls[i]],
          result |-> Cardinality({i \in DOMAIN ls : ls[i].DeletedAt = NULL}),
          err |-> nil]

FetchLocation(geolocAPIKey, reply) ==
    IF geolocAPIKey # NULL /\ reply.err = nil
    THEN [location |-> reply.CountryName, err |-> nil]
    ELSE [location |-> unknownLocation,
          err |-> IF geolocAPIKey # NULL THEN reply.err ELSE nil]

----------------------------------------------------------------------------
(* processSave: the `save' command *)

\* what the storage and the provider answer during one processSave
\* (an answer that is never asked for, the insert or the lookup having failed,
\* is left at its first value)
NoReply == [CountryName |-> "", err |-> nil]
SaveEnvs ==
    {e \in [insertOK : BOOLEAN, lookupOK : BOOLEAN, reply : GeoReplies,
            saveLocOK : BOOLEAN, updateOK : BOOLEAN] :
        /\ ~e.insertOK => e.lookupOK
        /\ ~(e.insertOK /\ e.lookupOK) =>
               e.reply = NoReply /\ e.saveLocOK /\ e.updateOK}

\* calls: the collaborators and store operations called, in order; reply:
\* what the provider answered, when it was called;
\* logged: the messages written with l(); exit: the exit code of the command

\* resolveLocation with a cached "Unknown" taken for no cache
resolveLocationRefetchUnknown(locs, ip, geolocAPIKey, e, cached) ==
    LET f == FetchLocation(geolocAPIKey, e.reply)
        fetched == IF f.location = "" THEN unknownLocation ELSE f.location
        stored == SaveLocation(locs, ip, fetched, e.saveLocOK)
    IN  IF cached.ID = 0 \/ cached.CountryName = unknownLocation
        THEN [locations |-> stored.locations, fetched |-> fetched,
              reply |-> IF geolocAPIKey # NULL THEN e.reply ELSE NoReply,
              calls |-> (IF geolocAPIKey # NULL
                         THEN <<"GetGeolocation">> ELSE <<>>)
                        \o <<"SaveLocation">>,
              logged |-> (IF f.err # nil
                          THEN <<"Failed to fetch location">> ELSE <<>>)
                         \o (IF stored.err # nil
                             THEN <<"Failed to save location">> ELSE <<>>)]
        ELSE [locations |-> locs, fetched |-> cached.CountryName,
              reply |-> NoReply, calls |-> <<>>, logged |-> <<>>]

\* resolveLocation without `if fetched == "" { fetched = unknownLocation }'
resolveLocationKeepEmpty(locs, ip, geolocAPIKey, e, cached) ==
    LET f == FetchLocation(geolocAPIKey, e.reply)
        fetched == f.location
        stored == SaveLocation(locs, ip, fetched, e.saveLocOK)
    IN  IF cached.ID = 0
        THEN [locations |-> stored.locations, fetched |-> fetched,
              reply |-> IF geolocAPIKey # NULL THEN e.reply ELSE NoReply,
              calls |-> (IF geolocAPIKey # NULL
                         THEN <<"GetGeolocation">> ELSE <<>>)
                        \o <<"SaveLocation">>,
              logged |-> (IF f.err # nil
                          THEN <<"Failed to fetch location">> ELSE <<>>)
                         \o (IF stored.err # nil
                             THEN <<"Failed to save location">> ELSE <<>>)]
        ELSE [locations |-> locs, fetched |-> cached.CountryName,
              reply |-> NoReply, calls |-> <<>>, logged |-> <<>>]

\* the body of `if cached, err := db.LookupLocation(*ip); err == nil': the
\* cached country is reused, or the location is fetched and put in the cache
resolveLocation(locs, ip, geolocAPIKey, e, cached) ==
    LET f == FetchLocation(geolocAPIKey, e.reply)
        fetched == IF f.location = "" THEN unknownLocation ELSE f.location
        stored == SaveLocation(locs, ip, fetched, e.saveLocOK)
    IN  IF cached.ID = 0
        THEN [locations |-> stored.locations, fetched |-> fetched,
              reply |-> IF geolocAPIKey # NULL THEN e.reply ELSE NoReply,
              calls |-> (IF geolocAPIKey # NULL
                         THEN <<"GetGeolocation">> ELSE <<>>)
                        \o <<"SaveLocation">>,
              logged |-> (IF f.err # nil
                          THEN <<"Failed to fetch location">> ELSE <<>>)
                         \o (IF stored.err # nil
                             THEN <<"Failed to save location">> ELSE <<>>)]
        ELSE [locations |-> locs, fetched |-> cached.CountryName,
              reply |-> NoReply, calls |-> <<>>, logged |-> <<>>]

\* processSave with the cache never consulted: every IP is fetched and cached
processSaveNoLookup(ls, locs, t, protocol, ip, geolocAPIKey, e) ==
    LET saved == SaveBanAction(ls, protocol, ip, t, e.insertOK)
        r == resolveLocation(locs, ip, geolocAPIKey, e, ZeroLocation)
        updated == UpdateBanActionLocation(saved.logs, saved.id, r.fetched,
                                           e.updateOK)
    IN  IF saved.err # nil
        THEN [logs |-> saved.logs, locations |-> locs, exit |-> 1,
              id |-> saved.id, cachedID |-> 0 - 1, fetched |-> NULL,
              reply |-> NoReply, calls |-> <<"SaveBanAction">>,
              logged |-> <<"Failed to save ban action">>]
        ELSE [logs |-> updated.logs, locations |-> r.locations, exit |-> 0,
              id |-> saved.id, cachedID |-> 0 - 1, fetched |-> r.fetched,
              reply |-> r.reply, calls |-> <<"SaveBanAction">> \o r.calls
                        \o <<"UpdateBanActionLocation">>,
              logged |-> r.logged
                         \o (IF updated.err # nil
                             THEN <<"Failed to update location of ban action">>
                             ELSE <<>>)]

\* processSave with a failed lookup ending the command as a failed insert does
processSaveLookupFatal(ls, locs, t, protocol, ip, geolocAPIKey, e) ==
    LET saved == SaveBanAction(ls, protocol, ip, t, e.insertOK)
        cached == LookupLocation(locs, ip, e.lookupOK)
        r == resolveLocation(locs, ip, geolocAPIKey, e, cached.result)
        updated == UpdateBanActionLocation(saved.logs, saved.id, r.fetched,
                                           e.updateOK)
    IN  IF saved.err # nil
        THEN [logs |-> saved.logs, locations |-> locs, exit |-> 1,
              id |-> saved.id, cachedID |-> 0 - 1, fetched |-> NULL,
              reply |-> NoReply, calls |-> <<"SaveBanAction">>,
              logged |-> <<"Failed to save ban action">>]
        ELSE IF cached.err # nil
        THEN [logs |-> saved.logs, locations |-> locs, exit |-> 1,
              id |-> saved.id, cachedID |-> 0 - 1, fetched |-> NULL,
              reply |-> NoReply,
              calls |-> <<"SaveBanAction", "LookupLocation">>,
              logged |-> <<"Failed to lookup location">>]
        ELSE [logs |-> updated.logs, locations |-> r.locations, exit |-> 0,
              id |-> saved.id, cachedID |-> cached.result.ID,
              fetched |-> r.fetched, reply |-> r.reply,
              calls |-> <<"SaveBanAction", "LookupLocation">> \o r.calls
                        \o <<"UpdateBanActionLocation">>,
              logged |-> r.logged
                         \o (IF updated.err # nil
                             THEN <<"Failed to update location of ban action">>
                             ELSE <<>>)]

\* cachedID is the ID of the looked-up record, 0 for none, -1 when the lookup
\* did not answer or was not reached
processSave(ls, locs, t, protocol, ip, geolocAPIKey, e) ==
    LET saved == SaveBanAction(ls, protocol, ip, t, e.insertOK)
        cached == LookupLocation(locs, ip, e.lookupOK)
        r == resolveLocation(locs, ip, geolocAPIKey, e, cached.result)
        updated == UpdateBanActionLocation(saved.logs, saved.id, r.fetched,
                                           e.updateOK)
    IN  IF saved.err # nil
        THEN [logs |-> saved.logs, locations |-> locs, exit |-> 1,
              id |-> saved.id, cachedID |-> 0 - 1, fetched |-> NULL,
              reply |-> NoReply, calls |-> <<"SaveBanAction">>,
              logged |-> <<"Failed to save ban action">>]
        ELSE IF cached.err # nil
        THEN [logs |-> saved.logs, locations |-> locs, exit |-> 0,
              id |-> saved.id, cachedID |-> 0 - 1, fetched |-> NULL,
              reply |-> NoReply,
              calls |-> <<"SaveBanAction", "LookupLocation">>,
              logged |-> <<"Failed to lookup location">>]
        ELSE [logs |-> updated.logs, locations |-> r.locations, exit |-> 0,
              id |-> saved.id, cachedID |-> cached.result.ID,
              fetched |-> r.fetched, reply |-> r.reply,
              calls |-> <<"SaveBanAction", "LookupLocation">> \o r.calls
                        \o <<"UpdateBanActionLocation">>,
              logged |-> r.logged
                         \o (IF updated.err # nil
                             THEN <<"Failed to update location of ban action">>
                             ELSE <<>>)]

----------------------------------------------------------------------------
(* The aggregator *)

Min(S) == CHOOSE x \in S : \A y \in S : x <= y
Max(S) == CHOOSE x \in S : \A y \in S : x >= y
Range(f) == {f[i] : i \in DOMAIN f}

keyValue(key, value) == [Key |-> key, Value |-> value]

\* keyValuesSet without the search for the key
keyValuesSetAppend(kvs, key, value) == Append(kvs, keyValue(key, value))

keyValuesSet(kvs, key, value) ==
    LET hits == {i \in DOMAIN kvs : kvs[i].Key = key}
    IN  IF hits # {}
        THEN [kvs EXCEPT ![Min(hits)].Value = value]
        ELSE Append(kvs, keyValue(key, value))

\* keyValuesGet that finds no key
keyValuesGetZero(kvs, key) == [value |-> 0, exists |-> FALSE]

keyValuesGet(kvs, key) ==
    LET hits == {i \in DOMAIN kvs : kvs[i].Key = key}
    IN  IF hits # {}
        THEN [value |-> kvs[Min(hits)].Value, exists |-> TRUE]
        ELSE [value |-> 0, exists |-> FALSE]

\* time.Format("2006-01-02 15:04:05") of both ends, joined by " ~ "
FromTo(from, to) == <<from, " ~ ", to>>

SubReport(fromTo) ==
    [FromTo |-> fromTo, TotalCount |-> 0,
     ProtocolCounts |-> <<>>, CountryCounts |-> <<>>]

\* FindSince with the row created exactly at `since' left out
FindSinceExclusive(ls, since, ok) ==
    IF ok
    THEN [rows |-> SelectSeq(ls, LAMBDA r : r.DeletedAt = NULL
                                            /\ r.CreatedAt > since),
          err |-> nil]
    ELSE [rows |-> <<>>, err |-> ErrStore]

\* FindSince without its Where clause
FindSinceAll(ls, since, ok) ==
    IF ok
    THEN [rows |-> SelectSeq(ls, LAMBDA r : r.DeletedAt = NULL), err |-> nil]
    ELSE [rows |-> <<>>, err |-> ErrStore]

\* Where("created_at >= ?", since).Find(&rows): the rows not soft-deleted, in
\* the order of the table (ids and creation times grow together)
FindSince(ls, since, ok) ==
    IF ok
    THEN [rows |-> SelectSeq(ls, LAMBDA r : r.DeletedAt = NULL
                                            /\ r.CreatedAt >= since),
          err |-> nil]
    ELSE [rows |-> <<>>, err |-> ErrStore]

\* countLogs without the test `log.Location != nil': an event with no
\* location is counted under the empty country name
RECURSIVE countLogsNullToo(_, _, _)
countLogsNullToo(rows, i, sub) ==
    IF i > Len(rows)
    THEN sub
    ELSE LET log == rows[i]
             country == IF log.Location # NULL THEN log.Location ELSE ""
             pc == keyValuesSet(sub.ProtocolCounts, log.Protocol,
                       keyValuesGet(sub.ProtocolCounts, log.Protocol).value + 1)
             cc == keyValuesSet(sub.CountryCounts, country,
                       keyValuesGet(sub.CountryCounts, country).value + 1)
         IN  countLogsNullToo(rows, i + 1,
                 [sub EXCEPT !.ProtocolCounts = pc, !.CountryCounts = cc])

\* the loop `for _, log := range lastDaysForReport' over rows i, i+1, ...
RECURSIVE countLogs(_, _, _)
countLogs(rows, i, sub) ==
    IF i > Len(rows)
    THEN sub
    ELSE LET log == rows[i]
             pc == keyValuesSet(sub.ProtocolCounts, log.Protocol,
                       keyValuesGet(sub.ProtocolCounts, log.Protocol).value + 1)
             cc == IF log.Location # NULL
                   THEN keyValuesSet(sub.CountryCounts, log.Location,
                            keyValuesGet(sub.CountryCounts, log.Location).value + 1)
                   ELSE sub.CountryCounts
         IN  countLogs(rows, i + 1,
                       [sub EXCEPT !.ProtocolCounts = pc, !.CountryCounts = cc])

\* generateReport with offsetDays counted positive for the past
generateReportOffsetBack(ls, clk, offsetDays, n1, n2, e) ==
    LET timestamp == clk[1] - offsetDays
        empty == [LastDaysReport1 |-> SubReport(FromTo(timestamp - n1, timestamp)),
                  LastDaysReport2 |-> SubReport(FromTo(timestamp - n2, timestamp)),
                  Insight |-> NoText]
        counted(sub, found) ==
            countLogs(found.rows, 1, [sub EXCEPT !.TotalCount = Len(found.rows)])
        result(found1, found2) ==
            IF found1.err # nil
            THEN [result |-> empty, err |-> found1.err]
            ELSE IF found2.err # nil
            THEN [result |-> [empty EXCEPT !.LastDaysReport1 =
                                               counted(@, found1)],
                  err |-> found2.err]
            ELSE [result |-> [empty EXCEPT
                                  !.LastDaysReport1 = counted(@, found1),
                                  !.LastDaysReport2 = counted(@, found2)],
                  err |-> nil]
    IN  result(FindSince(ls, clk[2] - (offsetDays + n1), e.q1OK),
               FindSince(ls, clk[3] - (offsetDays + n2), e.q2OK))

\* generateReport with the rows created after the reference instant left out
generateReportUpTo(ls, clk, offsetDays, n1, n2, e) ==
    LET timestamp == clk[1] + offsetDays
        empty == [LastDaysReport1 |-> SubReport(FromTo(timestamp - n1, timestamp)),
                  LastDaysReport2 |-> SubReport(FromTo(timestamp - n2, timestamp)),
                  Insight |-> NoText]
        upTo(found) ==
            [found EXCEPT !.rows = SelectSeq(@, LAMBDA r : r.CreatedAt <= timestamp)]
        counted(sub, found) ==
            countLogs(found.rows, 1, [sub EXCEPT !.TotalCount = Len(found.rows)])
        result(found1, found2) ==
            IF found1.err # nil
            THEN [result |-> empty, err |-> found1.err]
            ELSE IF found2.err # nil
            THEN [result |-> [empty EXCEPT !.LastDaysReport1 =
                                               counted(@, found1)],
                  err |-> found2.err]
            ELSE [result |-> [empty EXCEPT
                                  !.LastDaysReport1 = counted(@, found1),
                                  !.LastDaysReport2 = counted(@, found2)],
                  err |-> nil]
    IN  result(upTo(FindSince(ls, clk[2] + (offsetDays - n1), e.q1OK)),
               upTo(FindSince(ls, clk[3] + (offsetDays - n2), e.q2OK)))

\* clk: the three readings of time.Now(), for the labels and for each query;
\* e: whether the storage answers each query
generateReport(ls, clk, offsetDays, n1, n2, e) ==
    LET timestamp == clk[1] + offsetDays
        empty == [LastDaysReport1 |-> SubReport(FromTo(timestamp - n1, timestamp)),
                  LastDaysReport2 |-> SubReport(FromTo(timestamp - n2, timestamp)),
                  Insight |-> NoText]
        counted(sub, found) ==
            countLogs(found.rows, 1, [sub EXCEPT !.TotalCount = Len(found.rows)])
        result(found1, found2) ==
            IF found1.err # nil
            THEN [result |-> empty, err |-> found1.err]
            ELSE IF found2.err # nil
            THEN [result |-> [empty EXCEPT !.LastDaysReport1 =
                                               counted(@, found1)],
                  err |-> found2.err]
            ELSE [result |-> [empty EXCEPT
                                  !.LastDaysReport1 = counted(@, found1),
                                  !.LastDaysReport2 = counted(@, found2)],
                  err |-> nil]
    IN  result(FindSince(ls, clk[2] + (offsetDays - n1), e.q1OK),
               FindSince(ls, clk[3] + (offsetDays - n2), e.q2OK))

\* the answers of the storage to the two queries (the second is not asked
\* once the first has failed)
QueryEnvs ==
    {e \in [q1OK : BOOLEAN, q2OK : BOOLEAN] : ~e.q1OK => e.q2OK}
QueriesOK == [q1OK |-> TRUE, q2OK |-> TRUE]

----------------------------------------------------------------------------
(* The renderers.  A text is a sequence of lines, the last one not ended by *)
(* a newline; a line is a sequence of pieces, each a constant of the format *)
(* string or a formatted argument.  A nil []byte or *string is NoText, the  *)
(* empty string is EmptyString.                                             *)

EmptyString == << <<>> >>

\* string concatenation: the last line of a goes on with the first of b
Concat(a, b) ==
    SubSeq(a, 1, Len(a) - 1) \o <<a[Len(a)] \o b[1]>> \o SubSeq(b, 2, Len(b))

\* string(bytes)
String(bytes) == IF bytes = NoText THEN EmptyString ELSE bytes

\* strings.Join(lines, "\n")
Join(lines) == IF lines = <<>> THEN EmptyString ELSE lines

\* all the orders of a finite set
Orders(S) ==
    {o \in [1..Cardinality(S) -> S] : \A x \in S : \E i \in DOMAIN o : o[i] = x}

ProtocolOrders == Orders(Protocols)
CountryOrders == Orders(CountryNames \cup {unknownLocation})

Rank(tb, key) == CHOOSE i \in DOMAIN tb : tb[i] = key

\* sortSlice without the sort
sortSliceKeepOrder(s, tb) == s

\* sort.Slice(s, func(i, j) { return s[i].Value > s[j].Value }): s in
\* descending order of Value.  sort.Slice is not a stable sort: where it
\* leaves elements of equal Value is up to the library, and is given here by
\* tb, an order of the keys.
sortSlice(s, tb) ==
    LET Before(a, b) ==
            \/ a.Value > b.Value
            \/ a.Value = b.Value /\ Rank(tb, a.Key) < Rank(tb, b.Key)
    IN  [k \in DOMAIN s |->
            CHOOSE x \in Range(s) :
                Cardinality({y \in Range(s) : Before(y, x)}) = k - 1]

\* a copy of kvs, sorted
sortKeyValues(kvs, tb) == sortSlice(kvs, tb)

\* fmt.Sprintf("  %s: %d", kv.Key, kv.Value) for each kv
PlainLines(kvs) == [i \in DOMAIN kvs |-> <<"  ", kvs[i].Key, ": ", kvs[i].Value>>]
\* fmt.Sprintf("<U+2022> %s: %d", kv.Key, kv.Value) for each kv
HTMLLines(kvs) ==
    [i \in DOMAIN kvs |-> <<"<U+2022> ", kvs[i].Key, ": ", kvs[i].Value>>]

\* the orders sort.Slice may leave ties in: of protocols, of countries
TieBreaks == [p : ProtocolOrders, c : CountryOrders]

PlainWindow(sub, days, protocols, countries) ==
    << <<"> ", sub.FromTo, " (", days, " days)">>,
       <<"* Total: ", sub.TotalCount, " ban action(s)">>,
       <<>>,
       <<"* Protocols:">> >>
    \o Join(protocols)
    \o << <<>>,
          <<"* Originating Countries:">> >>
    \o Join(countries)
    \o << <<"---">> >>

GetReportAsPlain(ls, clk, offsetDays, n1, n2, e, tb) ==
    LET render(report, err) ==
            LET protocolsForReport1 ==
                    PlainLines(sortKeyValues(
                        report.LastDaysReport1.ProtocolCounts, tb.p))
                countriesForReport1 ==
                    PlainLines(sortKeyValues(
                        report.LastDaysReport1.CountryCounts, tb.c))
                protocolsForReport2 ==
                    PlainLines(report.LastDaysReport2.ProtocolCounts)
                countriesForReport2 ==
                    PlainLines(report.LastDaysReport2.CountryCounts)
            IN  IF err = nil
                THEN [result |->
                          << <<>>, <<">>> Generated Report:">>, <<>> >>
                          \o PlainWindow(report.LastDaysReport1, n1,
                                 protocolsForReport1, countriesForReport1)
                          \o << <<>> >>
                          \o PlainWindow(report.LastDaysReport2, n2,
                                 protocolsForReport2, countriesForReport2)
                          \o << <<>> >>,
                      err |-> nil]
                ELSE [result |-> NoText, err |-> err]
        rendered(g) == render(g.result, g.err)
    IN  rendered(generateReport(ls, clk, offsetDays, n1, n2, e))

GetFinalReportAsPlain(report, insight) ==
    IF insight # NoText
    THEN Concat(Concat(String(report),
                       << <<>>, <<>>, <<"===">>,
                          <<"* Generated insights (by ", googleAIModel, "):">>,
                          <<>>, <<>> >>),
                String(insight))
    ELSE report

\* encoding/json: an object is the sequence of its members <<name, value>>, in
\* the order of the fields of the struct; an array is a sequence
MarshalKeyValues(kvs) ==
    [i \in DOMAIN kvs |-> << <<"Key", kvs[i].Key>>, <<"Value", kvs[i].Value>> >>]

MarshalSubReport(sub) ==
    << <<"from_to", sub.FromTo>>,
       <<"total_count", sub.TotalCount>>,
       <<"protocol_counts", MarshalKeyValues(sub.ProtocolCounts)>>,
       <<"country_counts", MarshalKeyValues(sub.CountryCounts)>> >>

\* `json:"insight,omitempty"': a nil Insight is left out
Marshal(report) ==
    << <<"last_days_report1", MarshalSubReport(report.LastDaysReport1)>>,
       <<"last_days_report2", MarshalSubReport(report.LastDaysReport2)>> >>
    \o (IF report.Insight # NoText
        THEN << <<"insight", report.Insight>> >> ELSE <<>>)

\* the value of the member of an object with the given name (the last one,
\* were the name repeated)
Member(object, name) ==
    object[Max({i \in DOMAIN object : object[i][1] = name})][2]
HasMember(object, name) == \E i \in DOMAIN object : object[i][1] = name

\* UnmarshalKeyValues with the elements of the array taken last first
UnmarshalKeyValuesReversed(array) ==
    [i \in DOMAIN array |->
        keyValue(Member(array[Len(array) + 1 - i], "Key"),
                 Member(array[Len(array) + 1 - i], "Value"))]

UnmarshalKeyValues(array) ==
    [i \in DOMAIN array |->
        keyValue(Member(array[i], "Key"), Member(array[i], "Value"))]

UnmarshalSubReport(object) ==
    [FromTo |-> Member(object, "from_to"),
     TotalCount |-> Member(object, "total_count"),
     ProtocolCounts |-> UnmarshalKeyValues(Member(object, "protocol_counts")),
     CountryCounts |-> UnmarshalKeyValues(Member(object, "country_counts"))]

\* json.Unmarshal(bytes, &tempReport): no input is an error
Unmarshal(bytes) ==
    IF bytes = NoText
    THEN [result |-> NoText, err |-> "unexpected end of JSON input"]
    ELSE [result |->
              [LastDaysReport1 |->
                   UnmarshalSubReport(Member(bytes, "last_days_report1")),
               LastDaysReport2 |->
                   UnmarshalSubReport(Member(bytes, "last_days_report2")),
               Insight |-> IF HasMember(bytes, "insight")
                           THEN Member(bytes, "insight") ELSE NoText],
          err |-> nil]

GetReportAsJSON(ls, clk, offsetDays, n1, n2, e) ==
    LET rendered(g) ==
            IF g.err = nil
            THEN [result |-> Marshal(g.result), err |-> nil]
            ELSE [result |-> NoText, err |-> g.err]
    IN  rendered(generateReport(ls, clk, offsetDays, n1, n2, e))

GetFinalReportAsJSON(report, insight) ==
    LET final(tempReport) ==
            IF tempReport.err = nil
            THEN Marshal([tempReport.result EXCEPT !.Insight = String(insight)])
            ELSE NoText
    IN  IF insight # NoText THEN final(Unmarshal(report)) ELSE report

HTMLWindow(sub, days, protocols, countries) ==
    << <<"<p>">>,
       <<"<h4>", sub.FromTo, " (", days, " days)</h4>">>,
       <<>>,
       <<"<strong>Total</strong> ", sub.TotalCount, " ban action(s)">>,
       <<>>,
       <<"<strong>Protocols</strong>">> >>
    \o Join(protocols)
    \o << <<>>,
          <<"<strong>Originating Countries</strong>">> >>
    \o Join(countries)
    \o << <<"</p>">> >>

\* the first window's protocol counts are sorted in place before they are
\* sorted again as the other tables are; the tenth argument of the format,
\* which the last line formats as the target of the link, is the joined
\* country lines of the second window
GetReportAsTelegraph(ls, clk, offsetDays, n1, n2, e, tb) ==
    LET render(report, err) ==
            LET protocolsForReport1 ==
                    HTMLLines(sortKeyValues(
                        report.LastDaysReport1.ProtocolCounts, tb.p))
                countriesForReport1 ==
                    HTMLLines(sortKeyValues(
                        report.LastDaysReport1.CountryCounts, tb.c))
                protocolsForReport2 ==
                    HTMLLines(sortKeyValues(
                        report.LastDaysReport2.ProtocolCounts, tb.p))
                countriesForReport2(sorted) == HTMLLines(sorted)
                html(countries2) ==
                    Concat(
                        << <<"<h3>Generated Report</h3>">>, <<>> >>
                        \o HTMLWindow(report.LastDaysReport1, n1,
                                      protocolsForReport1, countriesForReport1)
                        \o HTMLWindow(report.LastDaysReport2, n2,
                                      protocolsForReport2, countries2)
                        \o << <<>>, <<"<i>report generated by <a href=\"">> >>,
                        Concat(Join(countries2), << <<"\">balog</a></i>">> >>))
            IN  IF err = nil
                THEN [result |->
                          html(countriesForReport2(sortKeyValues(
                              report.LastDaysReport2.CountryCounts, tb.c))),
                      err |-> nil]
                ELSE [result |-> NoText, err |-> err]
        rendered(g) ==
            render([g.result EXCEPT !.LastDaysReport1.ProtocolCounts =
                                        sortSlice(@, tb.p)],
                   g.err)
    IN  rendered(generateReport(ls, clk, offsetDays, n1, n2, e))

GetFinalReportAsTelegraph(report, insight) ==
    IF insight # NoText
    THEN Concat(Concat(String(report),
                       << <<>>, <<>>, <<"<p>">>, <<"<h4>Insights</h4>">>,
                          <<>>, <<>> >>),
                Concat(String(insight),
                       << <<>>, <<"</p>">>, <<>>,
                          <<"<i>insights generated by <strong>",
                            googleAIModel, "</strong></i>">> >>))
    ELSE report

----------------------------------------------------------------------------
(* processReport: the `report' command *)

ErrClient == "error initializing gemini-things client"
ErrGenerate == "generation failed"
ErrTelegraph == "telegraph error"

TelegraphTokens == {NULL, "token"}
Formats == {"plain", "json", "telegraph"}

\* the text of the parts of the first candidate, each followed by a newline
InsightText == << <<"insight">>, <<>> >>

\* what the summarizer may do: gt.NewClient fails; gtc.Generate fails or
\* returns no candidate; the parts of the first candidate are returned
InsightReplies == {"client", "generate", "ok"}

generateInsight(googleAIAPIKey, olderReport, recentReport, reply) ==
    CASE reply = "client" -> [insight |-> NoText, err |-> ErrClient]
      [] reply = "generate" -> [insight |-> EmptyString, err |-> ErrGenerate]
      [] OTHER -> [insight |-> InsightText, err |-> nil]

\* postToTelegraphAndReturnURL with the error of CreatePageWithHTML dropped
postToTelegraphAndReturnURLNoError(client, bytes, offsetDays, ok) ==
    IF ok
    THEN [url |-> << <<"https://telegra.ph/", "Balog-Report">> >>, err |-> nil]
    ELSE [url |-> EmptyString, err |-> nil]

\* client.CreatePageWithHTML(title, author, projectURL, bytes, true)
postToTelegraphAndReturnURL(client, bytes, offsetDays, ok) ==
    IF ok
    THEN [url |-> << <<"https://telegra.ph/", "Balog-Report">> >>, err |-> nil]
    ELSE [url |-> EmptyString, err |-> ErrTelegraph]

QueryFails == [q1OK |-> FALSE, q2OK |-> TRUE]
NoTieBreak == CHOOSE tb \in TieBreaks : TRUE

\* the environment of one `report' command: the storage's answers to the
\* queries of the recent and of the older report, where sort.Slice leaves
\* ties, the summarizer's reply, and the answers of telegra.ph; what the
\* command does not come to ask has one value
ReportEnvs(format, telegraphAccessToken, googleAIAPIKey) ==
    LET asked == format = "telegraph"
        loaded == asked /\ telegraphAccessToken # NULL
        stopped == asked /\ ~loaded
    IN  {e \in [recent : IF stopped THEN {QueriesOK} ELSE QueryEnvs,
                older : IF googleAIAPIKey = NULL \/ stopped
                        THEN {QueriesOK} ELSE {QueriesOK, QueryFails},
                tb : IF format = "json" \/ stopped
                     THEN {NoTieBreak} ELSE TieBreaks,
                reply : IF googleAIAPIKey = NULL \/ stopped
                        THEN {"ok"} ELSE InsightReplies,
                create : IF stopped THEN BOOLEAN ELSE {TRUE},
                load : IF loaded THEN BOOLEAN ELSE {TRUE},
                post : IF loaded THEN BOOLEAN ELSE {TRUE}] :
           /\ e.older # QueriesOK => e.reply = "ok"
           /\ (loaded /\ (~e.load \/ e.recent # QueriesOK)) =>
                  e.older = QueriesOK /\ e.reply = "ok" /\ e.post
           /\ (loaded /\ ~e.load) => e.recent = QueriesOK
           /\ (e.recent # QueriesOK \/ ~e.load) => e.tb = NoTieBreak}

\* the access token matters to the telegraph format alone
TokensOf(format) == IF format = "telegraph" THEN TelegraphTokens ELSE {NULL}

\* insightBlock with generateInsight called once more when it has failed
insightBlockRetry(googleAIAPIKey, older, recent, err, reply) ==
    IF googleAIAPIKey # NULL /\ older # NoText
    THEN LET g == generateInsight(googleAIAPIKey, older, recent, reply)
         IN  [insight |-> g.insight, err |-> g.err, called |-> TRUE,
              calls |-> IF g.err # nil
                        THEN <<"generateInsight", "generateInsight">>
                        ELSE <<"generateInsight">>,
              logged |-> IF g.err # nil
                         THEN <<"Failed to generate insights">> ELSE <<>>]
    ELSE [insight |-> NoText, err |-> err, called |-> FALSE, calls |-> <<>>,
          logged |-> <<>>]

\* the block `if googleAIAPIKey != nil { ... }' of each format: err is the
\* error variable of processReport, which generateInsight assigns; calls
\* are the calls of collaborators, in order
insightBlock(googleAIAPIKey, older, recent, err, reply) ==
    IF googleAIAPIKey # NULL /\ older # NoText
    THEN LET g == generateInsight(googleAIAPIKey, older, recent, reply)
         IN  [insight |-> g.insight, err |-> g.err, called |-> TRUE,
              calls |-> <<"generateInsight">>,
              logged |-> IF g.err # nil
                         THEN <<"Failed to generate insights">> ELSE <<>>]
    ELSE [insight |-> NoText, err |-> err, called |-> FALSE, calls |-> <<>>,
          logged |-> <<>>]

\* the end of processReport
reportExit(report, err, logged, insight, called, posted, calls) ==
    IF err # nil
    THEN [exit |-> 1, wrote |-> FALSE, printed |-> NoText,
          logged |-> Append(logged, "Failed to generate report"),
          insight |-> insight, called |-> called, posted |-> posted,
          calls |-> calls]
    ELSE [exit |-> 0, wrote |-> TRUE, printed |-> report, logged |-> logged,
          insight |-> insight, called |-> called, posted |-> posted,
          calls |-> calls]

processReport(ls, t, format, telegraphAccessToken, googleAIAPIKey, offsetDays, e) ==
    LET clk == <<t, t, t>>
        n1 == numDaysForReport1
        n2 == numDaysForReport2
        olderDays == offsetDays - numDaysBeforeForOlderReport
        insights(recent, older) ==
            insightBlock(googleAIAPIKey, older.result, recent.result,
                         recent.err, e.reply)
        plain(recent, b) ==
            reportExit(GetFinalReportAsPlain(recent.result, b.insight),
                       b.err, b.logged, b.insight, b.called, NoText, b.calls)
        json(recent, b) ==
            reportExit(GetFinalReportAsJSON(recent.result, b.insight),
                       b.err, b.logged, b.insight, b.called, NoText, b.calls)
        posted(final, b, post) ==
            reportExit(IF post.err = nil THEN post.url ELSE final,
                       post.err, b.logged, b.insight, b.called, final,
                       <<"telegraph.Load">> \o b.calls
                           \o <<"CreatePageWithHTML">>)
        published(final, b) ==
            posted(final, b,
                   postToTelegraphAndReturnURL("client", final, offsetDays,
                                               e.post))
        telegraph(recent, b) ==
            IF recent.err = nil
            THEN published(GetFinalReportAsTelegraph(recent.result, b.insight), b)
            ELSE reportExit(NoText, recent.err, <<>>, NoText, FALSE, NoText,
                            <<"telegraph.Load">>)
        plainReport(recent, older) == plain(recent, insights(recent, older))
        jsonReport(recent, older) == json(recent, insights(recent, older))
        telegraphReport(recent, older) ==
            telegraph(recent, insights(recent, older))
    IN
    CASE format = "plain" ->
           plainReport(
               GetReportAsPlain(ls, clk, offsetDays, n1, n2, e.recent, e.tb),
               GetReportAsPlain(ls, clk, olderDays, n1, n2, e.older, e.tb))
      [] format = "json" ->
           jsonReport(
               GetReportAsJSON(ls, clk, offsetDays, n1, n2, e.recent),
               GetReportAsJSON(ls, clk, olderDays, n1, n2, e.older))
      [] OTHER ->
           IF telegraphAccessToken = NULL
           THEN [exit |-> IF e.create THEN 0 ELSE 1, wrote |-> FALSE,
                 printed |-> NoText,
                 logged |-> IF e.create
                            THEN <<"Add the access token to the configuration">>
                            ELSE <<"Failed to create telegraph client">>,
                 insight |-> NoText, called |-> FALSE, posted |-> NoText,
                 calls |-> <<"telegraph.Create">>]
           ELSE IF ~e.load
           THEN [exit |-> 1, wrote |-> FALSE, printed |-> NoText,
                 logged |-> <<"Failed to load telegraph client">>,
                 insight |-> NoText, called |-> FALSE, posted |-> NoText,
                 calls |-> <<"telegraph.Load">>]
           ELSE telegraphReport(
                    GetReportAsTelegraph(ls, clk, offsetDays, n1, n2,
                                         e.recent, e.tb),
                    GetReportAsJSON(ls, clk, olderDays, n1, n2, e.older))

----------------------------------------------------------------------------
(* processMaintenance: the `maintenance' command *)

\* one answer of the provider and of the storage per listed record
ResolveEnvs(n) ==
    [listOK : BOOLEAN,
     replies : [1..n -> GeoReplies],
     updateOK : [1..n -> BOOLEAN]]

\* what the loop of ResolveUnknownIPs has done so far: the entries appended
\* to result, and the calls of the provider with what it answered
NoneResolved == [result |-> <<>>, calls |-> <<>>]

\* one call of client.GetGeolocation(ip), made when there is an API key
GetGeolocation(geolocAPIKey, ip, reply) ==
    IF geolocAPIKey # NULL THEN <<[IP |-> ip, reply |-> reply]>> ELSE <<>>

\* ResolveLoop without the test `location != ""'
RECURSIVE ResolveLoopNoEmptyTest(_, _, _, _, _, _)
ResolveLoopNoEmptyTest(locs, list, i, geolocAPIKey, e, acc) ==
    IF i > Len(list)
    THEN [locations |-> locs, result |-> acc.result, calls |-> acc.calls,
          err |-> nil]
    ELSE LET loc == list[i]
             f == FetchLocation(geolocAPIKey, e.replies[i])
             try == f.err = nil
             upd == UpdateLocation(locs, loc.IP, f.location, e.updateOK[i])
         IN  ResolveLoopNoEmptyTest(
                 IF try THEN upd.locations ELSE locs,
                 list, i + 1, geolocAPIKey, e,
                 [result |->
                      Append(acc.result,
                             IF try /\ upd.err = nil
                             THEN [loc EXCEPT !.CountryName = f.location]
                             ELSE loc),
                  calls |->
                      acc.calls \o GetGeolocation(geolocAPIKey, loc.IP,
                                                  e.replies[i])])

\* ResolveLoop ended by the first failure of the provider or of the update
RECURSIVE ResolveLoopStopOnError(_, _, _, _, _, _)
ResolveLoopStopOnError(locs, list, i, geolocAPIKey, e, acc) ==
    IF i > Len(list)
    THEN [locations |-> locs, result |-> acc.result, calls |-> acc.calls,
          err |-> nil]
    ELSE LET loc == list[i]
             f == FetchLocation(geolocAPIKey, e.replies[i])
             try == f.err = nil /\ f.location # ""
             upd == UpdateLocation(locs, loc.IP, f.location, e.updateOK[i])
             calls == acc.calls \o GetGeolocation(geolocAPIKey, loc.IP,
                                                  e.replies[i])
         IN  IF f.err # nil \/ (try /\ upd.err # nil)
             THEN [locations |-> locs, result |-> acc.result, calls |-> calls,
                   err |-> IF f.err # nil THEN f.err ELSE upd.err]
             ELSE ResolveLoopStopOnError(
                      IF try THEN upd.locations ELSE locs,
                      list, i + 1, geolocAPIKey, e,
                      [result |->
                           Append(acc.result,
                                  IF try
                                  THEN [loc EXCEPT !.CountryName = f.location]
                                  ELSE loc),
                       calls |-> calls])

RECURSIVE ResolveLoop(_, _, _, _, _, _)
ResolveLoop(locs, list, i, geolocAPIKey, e, acc) ==
    IF i > Len(list)
    THEN [locations |-> locs, result |-> acc.result, calls |-> acc.calls,
          err |-> nil]
    ELSE LET loc == list[i]
             f == FetchLocation(geolocAPIKey, e.replies[i])
             try == f.err = nil /\ f.location # ""
             upd == UpdateLocation(locs, loc.IP, f.location, e.updateOK[i])
         IN  ResolveLoop(IF try THEN upd.locations ELSE locs,
                         list, i + 1, geolocAPIKey, e,
                         [result |->
                              Append(acc.result,
                                     IF try /\ upd.err = nil
                                     THEN [loc EXCEPT !.CountryName = f.location]
                                     ELSE loc),
                          calls |->
                              acc.calls \o GetGeolocation(geolocAPIKey, loc.IP,
                                                          e.replies[i])])

ResolveUnknownIPs(locs, geolocAPIKey, e) ==
    LET listed == ListUnknownIPs(locs, e.listOK)
    IN  IF listed.err = nil
        THEN ResolveLoop(locs, listed.result, 1, geolocAPIKey, e, NoneResolved)
        ELSE [locations |-> locs, result |-> <<>>, calls |-> <<>>,
              err |-> listed.err]

\* the IP column of a list of Location rows
IPsOf(list) == [i \in DOMAIN list |-> list[i].IP]

processListUnknownIPs(locs, ok) ==
    LET ips == ListUnknownIPs(locs, ok)
    IN  IF ips.err = nil
        THEN [exit |-> 0, printed |-> <<"Unknown IPs:">> \o IPsOf(ips.result)]
        ELSE [exit |-> 1, printed |-> <<"Failed to list unknown IPs">>]

processResolveUnknownIPs(locs, geolocAPIKey, e) ==
    LET ips == ResolveUnknownIPs(locs, geolocAPIKey, e)
        resolved == SelectSeq(ips.result, LAMBDA r : r.CountryName # unknownLocation)
        unresolved == SelectSeq(ips.result, LAMBDA r : r.CountryName = unknownLocation)
    IN  IF ips.err = nil
        THEN [locations |-> ips.locations, exit |-> 0, result |-> ips.result,
              calls |-> ips.calls,
              printed |-> <<"Newly resolved IPs:", Len(resolved),
                            "Still unresolved:", Len(unresolved)>>]
        ELSE [locations |-> ips.locations, exit |-> 1, result |-> ips.result,
              calls |-> ips.calls,
              printed |-> <<"Failed to resolve unknown IPs">>]

processPurgeLogs(ls, t, ok) ==
    LET purged == PurgeLogs(ls, t, ok)
    IN  IF purged.err = nil
        THEN [logs |-> purged.logs, exit |-> 0,
              printed |-> <<"Purged", purged.result, "logs.">>]
        ELSE [logs |-> purged.logs, exit |-> 1,
              printed |-> <<"Failed to purge logs:", purged.err>>]

----------------------------------------------------------------------------
(* The sequential specification: one command at a time, each run to its end *)

Procs == {"p1", "p2"}

IdleProc ==
    [pc |-> "idle", protocol |-> NULL, ip |-> NULL, key |-> NULL, id |-> 0,
     cachedID |-> 0 - 1, fetched |-> NULL, storeErr |-> nil, logged |-> <<>>]

NoProcs == [p \in Procs |-> IdleProc]
\* no command is running
NoOut == [op |-> "none", exit |-> 0]

Init ==
    /\ logs = <<>>
    /\ locations = <<>>
    /\ now = 0
    /\ procs = NoProcs
    /\ out = NoOut

\* one `save' command, while the Event Store has fewer than n rows
SaveUpTo(n) ==
    /\ out = NoOut
    /\ Len(logs) < n
    /\ \E protocol \in Protocols, ip \in IPs, key \in APIKeys, e \in SaveEnvs :
         \E r \in {processSave(logs, locations, now, protocol, ip, key, e)} :
             /\ logs' = r.logs
             /\ locations' = r.locations
             /\ out' = [op |-> "save", exit |-> r.exit, protocol |-> protocol,
                        ip |-> ip, id |-> r.id, cachedID |-> r.cachedID,
                        fetched |-> r.fetched, reply |-> r.reply,
                        calls |-> r.calls, logged |-> r.logged]
    /\ UNCHANGED <<now, procs>>

Save == SaveUpTo(MaxSaves)

ListUnknown ==
    /\ out = NoOut
    /\ \E ok \in BOOLEAN :
         \E r \in {processListUnknownIPs(locations, ok)} :
             out' = [op |-> "list_unknown_ips", exit |-> r.exit,
                     printed |-> r.printed]
    /\ UNCHANGED <<logs, locations, now, procs>>

ResolveUnknown ==
    /\ out = NoOut
    /\ \E key \in APIKeys,
          e \in ResolveEnvs(Len(ListUnknownIPs(locations, TRUE).result)) :
         \E r \in {processResolveUnknownIPs(locations, key, e)} :
             /\ locations' = r.locations
             /\ out' = [op |-> "resolve_unknown_ips", exit |-> r.exit,
                        key |-> key, listOK |-> e.listOK,
                        result |-> r.result, calls |-> r.calls,
                        printed |-> r.printed]
    /\ UNCHANGED <<logs, now, procs>>

Purge ==
    /\ out = NoOut
    /\ \E ok \in BOOLEAN :
         \E r \in {processPurgeLogs(logs, now, ok)} :
             /\ logs' = r.logs
             /\ out' = [op |-> "purge_logs", exit |-> r.exit, storageOK |-> ok,
                        before |-> Len(logs), printed |-> r.printed]
    /\ UNCHANGED <<locations, now, procs>>

\* os.Exit, or the return of run: the command is over
Exit ==
    /\ out # NoOut
    /\ out' = NoOut
    /\ UNCHANGED <<logs, locations, now, procs>>

Next == Save \/ ListUnknown \/ ResolveUnknown \/ Purge \/ Exit

Spec == Init /\ [][Next]_vars

----------------------------------------------------------------------------
(* The report specifications: the program starts on an Event Store that    *)
(* earlier `save' commands have filled over the last weeks.                *)

\* how many days before the start each event may have been saved
EventAges == {1, 7, 10, 40}
ReportNow == Max(EventAges)

\* protocol, IP and resolved location of the events
EventKinds ==
    { <<"ssh", "8.8.8.8", "Korea">>,
      <<"ftp", "1.2.3.4", unknownLocation>>,
      <<"ftp", "8.8.8.8", NULL>> }

\* the Event Stores of n rows: ids 1..n, in the order of their creation
StoresOfLen(n) ==
    { [i \in 1..n |->
          [BanActionLog(i, k[i][1], ReportNow - a[i], k[i][2])
               EXCEPT !.Location = k[i][3]]] :
      k \in [1..n -> EventKinds],
      a \in {f \in [1..n -> EventAges] :
                 \A i, j \in 1..n : i < j => f[i] >= f[j]} }

Stores == UNION {StoresOfLen(n) : n \in 0..MaxLogs}

\* the Location Cache that the saves of the rows of ls have left
RECURSIVE CacheOf(_, _, _)
CacheOf(ls, i, locs) ==
    IF i > Len(ls)
    THEN locs
    ELSE CacheOf(ls, i + 1,
                 IF ls[i].Location # NULL /\ UniqueIP(locs, ls[i].IP)
                 THEN Append(locs, Location(Len(locs) + 1, ls[i].IP,
                                            ls[i].Location))
                 ELSE locs)

InitReport ==
    /\ logs \in Stores
    /\ locations = CacheOf(logs, 1, <<>>)
    /\ now = ReportNow
    /\ procs = NoProcs
    /\ out = NoOut

\* ReportCmd with the events taken out of the Event Store once reported
ReportCmdConsuming ==
    /\ out = NoOut
    /\ \E format \in Formats, key \in APIKeys :
         \E token \in TokensOf(format) :
           \E e \in ReportEnvs(format, token, key) :
             \E r \in {processReport(logs, now, format, token, key, 0, e)} :
                 out' = [op |-> "report", exit |-> r.exit, format |-> format,
                         token |-> token, key |-> key, recent |-> e.recent,
                         older |-> e.older, reply |-> e.reply, tb |-> e.tb,
                         post |-> e.post,
                         wrote |-> r.wrote, printed |-> r.printed,
                         logged |-> r.logged, insight |-> r.insight,
                         called |-> r.called, posted |-> r.posted,
                         calls |-> r.calls]
    /\ logs' = <<>>
    /\ UNCHANGED <<locations, now, procs>>

ReportCmd ==
    /\ out = NoOut
    /\ \E format \in Formats, key \in APIKeys :
         \E token \in TokensOf(format) :
           \E e \in ReportEnvs(format, token, key) :
             \E r \in {processReport(logs, now, format, token, key, 0, e)} :
                 out' = [op |-> "report", exit |-> r.exit, format |-> format,
                         token |-> token, key |-> key, recent |-> e.recent,
                         older |-> e.older, reply |-> e.reply, tb |-> e.tb,
                         post |-> e.post,
                         wrote |-> r.wrote, printed |-> r.printed,
                         logged |-> r.logged, insight |-> r.insight,
                         called |-> r.called, posted |-> r.posted,
                         calls |-> r.calls]
    /\ UNCHANGED <<logs, locations, now, procs>>

NextReport == ReportCmd \/ Exit

SpecReport == InitReport /\ [][NextReport]_vars

\* every command of the program, in any order, on a database that starts
\* empty and takes a few events
SaveFew == SaveUpTo(MaxFewSaves)

NextAll ==
    SaveFew \/ ListUnknown \/ ResolveUnknown \/ Purge \/ ReportCmd \/ Exit

SpecAll == Init /\ [][NextAll]_vars

\* the offsets processReport asks reports for
Offsets == {0, 0 - numDaysBeforeForOlderReport}

\* time passes
Tick ==
    /\ now < ReportNow + MaxDrift
    /\ now' = now + 1
    /\ UNCHANGED <<logs, locations, procs, out>>

\* the call before a successful call: kept when it had the same arguments
\* and succeeded too
NoCall == [op |-> "none", exit |-> 0]
Previous(o, offsetDays, err) ==
    IF /\ err = nil /\ o.op = "generateReport" /\ o.err = nil
       /\ o.offsetDays = offsetDays
    THEN [op |-> o.op, exit |-> o.exit, offsetDays |-> o.offsetDays,
          clk |-> o.clk, report |-> o.report]
    ELSE NoCall

\* one call of generateReport; the clock may advance between its readings
Generate ==
    /\ \E offsetDays \in Offsets, e \in QueryEnvs,
          t2 \in now..(ReportNow + MaxDrift) :
         \E t3 \in t2..(ReportNow + MaxDrift) :
             \E g \in {generateReport(logs, <<now, t2, t3>>, offsetDays,
                                        numDaysForReport1, numDaysForReport2,
                                        e)} :
                 /\ out' = [op |-> "generateReport", exit |-> 0,
                            offsetDays |-> offsetDays, clk |-> <<now, t2, t3>>,
                            report |-> g.result, err |-> g.err,
                            previous |-> Previous(out, offsetDays, g.err)]
                 /\ now' = t3
    /\ UNCHANGED <<logs, locations, procs>>

NextAgg == Tick \/ Generate

SpecAgg == InitReport /\ [][NextAgg]_vars

\* a call of generateReport of which only the result is kept, not the call
\* before it
GenerateOnce ==
    /\ \E offsetDays \in Offsets, e \in QueryEnvs,
          t2 \in now..(ReportNow + MaxDrift) :
         \E t3 \in t2..(ReportNow + MaxDrift) :
             \E g \in {generateReport(logs, <<now, t2, t3>>, offsetDays,
                                        numDaysForReport1, numDaysForReport2,
                                        e)} :
                 /\ out' = [op |-> "generateReport", exit |-> 0,
                            offsetDays |-> offsetDays, clk |-> <<now, t2, t3>>,
                            report |-> g.result, err |-> g.err,
                            previous |-> NoCall]
                 /\ now' = t3
    /\ UNCHANGED <<logs, locations, procs>>

NextWindows == Tick \/ GenerateOnce

SpecWindows == InitReport /\ [][NextWindows]_vars

----------------------------------------------------------------------------
(* The concurrent specification: two `save' commands, run as two processes *)
(* on the same database file, interleave at their store operations and at  *)
(* the call of the provider.  The storage answers every operation; its     *)
(* only refusal is the uniqueness constraint of locations.ip.              *)

\* db.SaveBanAction(*protocol, *ip)
CInsert(p) ==
    /\ procs[p].pc = "idle"
    /\ \E protocol \in Protocols, ip \in IPs, key \in APIKeys :
         LET saved == SaveBanAction(logs, protocol, ip, now, TRUE)
         IN  /\ logs' = saved.logs
             /\ procs' = [procs EXCEPT ![p] =
                    [@ EXCEPT !.pc = "inserted", !.protocol = protocol,
                              !.ip = ip, !.key = key, !.id = saved.id]]
    /\ UNCHANGED <<locations, now, out>>

\* db.LookupLocation(*ip) and the test of cached.ID
CLookup(p) ==
    /\ procs[p].pc = "inserted"
    /\ LET cached == LookupLocation(locations, procs[p].ip, TRUE)
       IN  procs' = [procs EXCEPT ![p] =
               IF cached.result.ID = 0
               THEN [@ EXCEPT !.pc = "miss", !.cachedID = 0]
               ELSE [@ EXCEPT !.pc = "resolved",
                              !.cachedID = cached.result.ID,
                              !.fetched = cached.result.CountryName]]
    /\ UNCHANGED <<logs, locations, now, out>>

\* FetchLocation(geolocAPIKey, *ip)
CFetch(p) ==
    /\ procs[p].pc = "miss"
    /\ \E reply \in GeoReplies :
         LET f == FetchLocation(procs[p].key, reply)
         IN  procs' = [procs EXCEPT ![p] =
                 [@ EXCEPT !.pc = "fetched",
                           !.fetched = IF f.location = ""
                                       THEN unknownLocation ELSE f.location,
                           !.logged = IF f.err # nil
                                      THEN Append(@, "Failed to fetch location")
                                      ELSE @]]
    /\ UNCHANGED <<logs, locations, now, out>>

\* db.SaveLocation(*ip, fetched)
CStore(p) ==
    /\ procs[p].pc = "fetched"
    /\ LET stored == SaveLocation(locations, procs[p].ip, procs[p].fetched, TRUE)
       IN  /\ locations' = stored.locations
           /\ procs' = [procs EXCEPT ![p] =
                  [@ EXCEPT !.pc = "resolved", !.storeErr = stored.err,
                            !.logged = IF stored.err # nil
                                       THEN Append(@, "Failed to save location")
                                       ELSE @]]
    /\ UNCHANGED <<logs, now, out>>

\* CUpdate with the event left alone once the cache insert has failed
CUpdateUnlessStoreFailed(p) ==
    /\ procs[p].pc = "resolved"
    /\ LET updated == UpdateBanActionLocation(logs, procs[p].id,
                                              procs[p].fetched, TRUE)
       IN  /\ logs' = IF procs[p].storeErr = nil THEN updated.logs ELSE logs
           /\ procs' = [procs EXCEPT ![p] = [@ EXCEPT !.pc = "done"]]
    /\ UNCHANGED <<locations, now, out>>

\* db.UpdateBanActionLocation(id, fetched), and the end of the command
CUpdate(p) ==
    /\ procs[p].pc = "resolved"
    /\ LET updated == UpdateBanActionLocation(logs, procs[p].id,
                                              procs[p].fetched, TRUE)
       IN  /\ logs' = updated.logs
           /\ procs' = [procs EXCEPT ![p] = [@ EXCEPT !.pc = "done"]]
    /\ UNCHANGED <<locations, now, out>>

NextConc ==
    \E p \in Procs :
        CInsert(p) \/ CLookup(p) \/ CFetch(p) \/ CStore(p) \/ CUpdate(p)

SpecConc == Init /\ [][NextConc]_vars

----------------------------------------------------------------------------
(* Claims *)

\* the rows a query of the Event Store can see
Live(ls) == SelectSeq(ls, LAMBDA r : r.DeletedAt = NULL)

\* C1: after n successful saves on an empty Event Store, purge_logs (on a
\* storage that answers) succeeds, prints exactly the n rows it found, and
\* leaves no event visible in the Event Store.
C1_PurgeRemovesEveryEvent ==
    (out.op = "purge_logs" /\ out.storageOK) =>
        /\ out.exit = 0
        /\ out.printed = <<"Purged", out.before, "logs.">>
        /\ Live(logs) = <<>>

\* C2: in every state reached by non-overlapping commands, no two Location
\* rows have the same IP, and a Location row appears only in a `save' whose
\* LookupLocation answered the zero-id record for that IP and which then
\* called SaveLocation: one row, for the IP of the command, at the end of
\* the table, the IP having had no row before.
C2_OneRecordPerIP ==
    [][ /\ \A i, j \in DOMAIN locations' :
              locations'[i].IP = locations'[j].IP => i = j
        /\ Len(locations') >= Len(locations)
        /\ Len(locations') > Len(locations) =>
              /\ out'.op = "save"
              /\ out'.cachedID = 0
              /\ \E k \in DOMAIN out'.calls : out'.calls[k] = "LookupLocation"
              /\ \E k \in DOMAIN out'.calls : out'.calls[k] = "SaveLocation"
              /\ UniqueIP(locations, out'.ip)
              /\ locations' = Append(locations,
                                     Location(Len(locations) + 1, out'.ip,
                                              out'.fetched)) ]_vars

\* C2 witness: a second IP has been cached, and a later `save' of a cached
\* IP has gone through the lookup without a new row.
C2_Witness ==
    /\ Len(locations) = 2
    /\ out.op = "save" /\ out.cachedID > 0
    /\ Len(logs) >= 2

\* C3 (as amended): when two `save' processes for the same IP both find it
\* not cached, both call SaveLocation; exactly one insert is refused by the
\* uniqueness constraint, leaving one row for the IP; the refused process
\* only logs the failure, goes on, and sets the location of its own event
\* to the country it fetched.
C3_RefusedInsertStillResolvesEvent ==
    /\ \A p, q \in Procs :
          ( /\ p # q
            /\ procs[p].ip = procs[q].ip
            /\ procs[p].cachedID = 0 /\ procs[q].cachedID = 0
            /\ procs[p].pc \in {"resolved", "done"}
            /\ procs[q].pc \in {"resolved", "done"} )
          => /\ {procs[p].storeErr, procs[q].storeErr} = {nil, ErrUnique}
             /\ Cardinality({i \in DOMAIN locations :
                                locations[i].IP = procs[p].ip}) = 1
    /\ \A p \in Procs :
          procs[p].storeErr = ErrUnique =>
             /\ procs[p].logged # <<>>
             /\ procs[p].logged[Len(procs[p].logged)] = "Failed to save location"
             /\ procs[p].pc \in {"resolved", "done"}
             /\ procs[p].pc = "done" =>
                   /\ procs[p].fetched # NULL
                   /\ logs[procs[p].id].Location = procs[p].fetched

\* C3 witness: a process whose cache insert was refused has finished.
C3_Witness ==
    \E p \in Procs : procs[p].pc = "done" /\ procs[p].storeErr = ErrUnique

\* C3 (as stated): the event of the process whose insert was refused is left
\* with a null location.
C3_RefusedInsertLeavesEventUnresolved ==
    \A p \in Procs :
        (procs[p].pc = "done" /\ procs[p].storeErr = ErrUnique) =>
            logs[procs[p].id].Location = NULL

----------------------------------------------------------------------------
(* Claims about the aggregator and the renderers *)

\* the distinct values of vals, in the order of their first occurrence
RECURSIVE FirstSeen(_)
FirstSeen(vals) ==
    IF vals = <<>>
    THEN <<>>
    ELSE LET seen == FirstSeen(SubSeq(vals, 1, Len(vals) - 1))
         IN  IF vals[Len(vals)] \in Range(seen)
             THEN seen ELSE Append(seen, vals[Len(vals)])

\* each distinct value of vals with the number of its occurrences
Tally(vals) ==
    [i \in DOMAIN FirstSeen(vals) |->
        keyValue(FirstSeen(vals)[i],
                 Cardinality({j \in DOMAIN vals : vals[j] = FirstSeen(vals)[i]}))]

\* the visible events created at `since' or later, in id order
EventsSince(since) ==
    SelectSeq(Live(logs), LAMBDA r : r.CreatedAt >= since)
ProtocolsOf(rows) == [i \in DOMAIN rows |-> rows[i].Protocol]
CountriesOf(rows) ==
    LET located == SelectSeq(rows, LAMBDA r : r.Location # NULL)
    IN  [i \in DOMAIN located |-> located[i].Location]

\* what a SubReport counts, its label apart
Content(sub) ==
    [TotalCount |-> sub.TotalCount, ProtocolCounts |-> sub.ProtocolCounts,
     CountryCounts |-> sub.CountryCounts]

\* every count of a is at most the count of the same key in b
AtMost(a, b) ==
    \A i \in DOMAIN a : a[i].Value <= keyValuesGet(b, a[i].Key).value

Descending(kvs) ==
    \A i, j \in DOMAIN kvs : i < j => kvs[i].Value >= kvs[j].Value

\* keys of equal count stand in t in the order they have in accumulated
TiesInOrder(t, accumulated) ==
    \A i, j \in DOMAIN t :
        (i < j /\ t[i].Value = t[j].Value) =>
            \E a, b \in DOMAIN accumulated :
                /\ a < b
                /\ accumulated[a].Key = t[i].Key
                /\ accumulated[b].Key = t[j].Key

\* the k-th line of a text that is the given title
Title(doc, title, k) ==
    LET at == {i \in DOMAIN doc : Len(doc[i]) = 1 /\ doc[i][1] = title}
    IN  CHOOSE i \in at : Cardinality({j \in at : j < i}) = k - 1

\* the table printed under line h of a text: its rows, read back
TableAt(doc, h, bullet) ==
    LET IsRow(line) == Len(line) = 4 /\ line[1] = bullet
        n == Max({k \in 0..(Len(doc) - h) :
                      \A m \in 1..k : IsRow(doc[h + m])})
    IN  [m \in 1..n |-> keyValue(doc[h + m][2], doc[h + m][4])]

PlainProtocols(doc, window) ==
    TableAt(doc, Title(doc, "* Protocols:", window), "  ")
PlainCountries(doc, window) ==
    TableAt(doc, Title(doc, "* Originating Countries:", window), "  ")
HTMLProtocols(doc, window) ==
    TableAt(doc, Title(doc, "<strong>Protocols</strong>", window), "<U+2022> ")
HTMLCountries(doc, window) ==
    TableAt(doc, Title(doc, "<strong>Originating Countries</strong>", window),
            "<U+2022> ")

\* the lower bound of window 1 or 2 of a report asked at instant t
Since(t, offsetDays, window) ==
    t + offsetDays
      - (IF window = 1 THEN numDaysForReport1 ELSE numDaysForReport2)

\* the counts of window 1 or 2 of the report the command has generated
Accumulated(window) ==
    [ProtocolCounts |-> Tally(ProtocolsOf(EventsSince(Since(now, 0, window)))),
     CountryCounts |-> Tally(CountriesOf(EventsSince(Since(now, 0, window))))]

\* the last call of generateReport succeeded, after a successful call with
\* the same arguments
CalledTwice ==
    /\ out.op = "generateReport" /\ out.err = nil
    /\ out.previous.op = "generateReport"
    /\ out.previous.offsetDays = out.offsetDays

SubOf(report, window) ==
    IF window = 1 THEN report.LastDaysReport1 ELSE report.LastDaysReport2

\* C4 (as amended): generateReport reads the wall clock itself, once for
\* each window's query.  Two calls with identical arguments against an
\* unmodified Event Store count the same in a window when the clock read
\* the same for that window's query in both calls; when it read later in
\* the second call, the second call counts the events of the first that
\* were created at or after its own, later, lower bound: no count grows,
\* and the total falls by the number of events between the two bounds.
C4_SameReadingsSameContent ==
    CalledTwice =>
        \A window \in {1, 2} :
            LET before == SubOf(out.previous.report, window)
                after == SubOf(out.report, window)
                from == Since(out.previous.clk[window + 1], out.offsetDays, window)
                to == Since(out.clk[window + 1], out.offsetDays, window)
            IN  /\ from = to => Content(after) = Content(before)
                /\ from <= to
                /\ AtMost(after.ProtocolCounts, before.ProtocolCounts)
                /\ AtMost(after.CountryCounts, before.CountryCounts)
                /\ after.TotalCount = before.TotalCount
                       - Len(SelectSeq(Live(logs), LAMBDA r :
                                 from <= r.CreatedAt /\ r.CreatedAt < to))

\* C4 witness: the clock has advanced between two calls with the same
\* arguments, and the first window of the second call has lost an event.
C4_Witness ==
    /\ CalledTwice
    /\ out.clk[2] > out.previous.clk[2]
    /\ out.report.LastDaysReport1.TotalCount
           < out.previous.report.LastDaysReport1.TotalCount

\* C4 (as stated): two calls with identical arguments against an unmodified
\* Event Store give the same content in both windows, whatever time has
\* passed between or within the calls.
C4_TwoCallsSameContent ==
    CalledTwice =>
        \A window \in {1, 2} :
            Content(SubOf(out.report, window))
                = Content(SubOf(out.previous.report, window))

\* C5: a successful generateReport(offset, 7, 30) counts in window A exactly
\* the visible events created at or after (the clock at A's query) + offset
\* - 7 days, and in window B exactly those created at or after (the clock at
\* B's query) + offset - 30 days, the bound included: totalCount is their
\* number and the protocol counts are their tally.
C5_WindowsCountEventsSinceBound ==
    (out.op = "generateReport" /\ out.err = nil) =>
        \A window \in {1, 2} :
            LET counted == EventsSince(Since(out.clk[window + 1],
                                             out.offsetDays, window))
                sub == SubOf(out.report, window)
            IN  /\ sub.TotalCount = Len(counted)
                /\ sub.ProtocolCounts = Tally(ProtocolsOf(counted))

\* C5 witness: three events, saved 40, 10 and exactly 7 days before the
\* call generateReport(0, 7, 30): window A counts one, window B two.
C5_Witness ==
    /\ out.op = "generateReport" /\ out.err = nil /\ out.offsetDays = 0
    /\ Len(logs) = 3
    /\ logs[1].CreatedAt = out.clk[3] - 40
    /\ logs[2].CreatedAt = out.clk[3] - 10
    /\ logs[3].CreatedAt = out.clk[2] - numDaysForReport1
    /\ out.report.LastDaysReport1.TotalCount = 1
    /\ out.report.LastDaysReport2.TotalCount = 2

\* the `report' command has printed a plain report of both windows
PlainPrinted ==
    /\ out.op = "report" /\ out.format = "plain"
    /\ out.exit = 0 /\ out.recent = QueriesOK

\* C6: in the plain-text rendering, the protocol table and the country
\* table of each of the two windows are listed in descending order of count.
C6_PlainTablesDescending ==
    PlainPrinted =>
        \A window \in {1, 2} :
            /\ Descending(PlainProtocols(out.printed, window))
            /\ Descending(PlainCountries(out.printed, window))

\* the `report' command has published an HTML report of both windows
HTMLPosted ==
    /\ out.op = "report" /\ out.format = "telegraph"
    /\ out.posted # NoText

\* C7: in the tables the plain-text and the HTML renderings sort (the first
\* window of the plain text, both windows of the HTML), two keys of equal
\* count stand in the order in which accumulation first met them.
C7_SortIsStable ==
    /\ PlainPrinted =>
          /\ TiesInOrder(PlainProtocols(out.printed, 1),
                         Accumulated(1).ProtocolCounts)
          /\ TiesInOrder(PlainCountries(out.printed, 1),
                         Accumulated(1).CountryCounts)
    /\ HTMLPosted =>
          \A window \in {1, 2} :
              /\ TiesInOrder(HTMLProtocols(out.posted, window),
                             Accumulated(window).ProtocolCounts)
              /\ TiesInOrder(HTMLCountries(out.posted, window),
                             Accumulated(window).CountryCounts)

\* the `report' command has printed a JSON report of both windows
JSONPrinted ==
    /\ out.op = "report" /\ out.format = "json"
    /\ out.exit = 0 /\ out.recent = QueriesOK

\* the keys and counts of an encoded table, in the order of the encoding
Listed(array) ==
    [i \in DOMAIN array |-> keyValue(array[i][1][2], array[i][2][2])]

JSONWindow(doc, window) ==
    Member(doc, IF window = 1 THEN "last_days_report1" ELSE "last_days_report2")

\* C8: in the JSON encoding, protocol_counts and country_counts of each
\* window list each key once, with its count, in the order in which the
\* scan of the window's events (in id order) first met the key; the tables
\* are not sorted by count.
C8_JSONKeepsFirstSeenOrder ==
    JSONPrinted =>
        \A window \in {1, 2} :
            /\ Listed(Member(JSONWindow(out.printed, window), "protocol_counts"))
                   = Accumulated(window).ProtocolCounts
            /\ Listed(Member(JSONWindow(out.printed, window), "country_counts"))
                   = Accumulated(window).CountryCounts

\* C8 witness: a JSON report whose second window lists ssh, met first, with
\* count 1 before ftp with count 2.
C8_Witness ==
    /\ JSONPrinted
    /\ Listed(Member(JSONWindow(out.printed, 2), "protocol_counts"))
           = <<keyValue("ssh", 1), keyValue("ftp", 2)>>

\* the same keys with the same counts
SameCounts(a, b) == Range(a) = Range(b) /\ Len(a) = Len(b)

\* C9: in the HTML rendering, the protocol table and the country table of
\* both windows hold the accumulated counts, listed in descending order of
\* count.
C9_HTMLTablesDescending ==
    HTMLPosted =>
        \A window \in {1, 2} :
            /\ Descending(HTMLProtocols(out.posted, window))
            /\ Descending(HTMLCountries(out.posted, window))
            /\ SameCounts(HTMLProtocols(out.posted, window),
                          Accumulated(window).ProtocolCounts)
            /\ SameCounts(HTMLCountries(out.posted, window),
                          Accumulated(window).CountryCounts)

\* C9 witness: an HTML report whose second window lists ftp with count 2
\* before ssh, which accumulation met first, with count 1.
C9_Witness ==
    /\ HTMLPosted
    /\ Accumulated(2).ProtocolCounts = <<keyValue("ssh", 1), keyValue("ftp", 2)>>
    /\ HTMLProtocols(out.posted, 2) = <<keyValue("ftp", 2), keyValue("ssh", 1)>>

\* C10: when a summarizer credential is configured and the call of the
\* summarizer fails (the report itself was generated, and telegra.ph
\* accepts the page), the failure is logged and the command ends with
\* status 0 having written the report, which has no insight section.
C10_FailedInsightIsNotFatal ==
    ( /\ out.op = "report" /\ out.key # NULL /\ out.called
      /\ out.reply # "ok" /\ out.recent = QueriesOK /\ out.post )
    => /\ out.logged = <<"Failed to generate insights">>
       /\ out.exit = 0 /\ out.wrote
       /\ CASE out.format = "plain" ->
                 out.printed = GetReportAsPlain(logs, <<now, now, now>>, 0,
                                   numDaysForReport1, numDaysForReport2,
                                   QueriesOK, out.tb).result
            [] out.format = "json" ->
                 out.printed = GetReportAsJSON(logs, <<now, now, now>>, 0,
                                   numDaysForReport1, numDaysForReport2,
                                   QueriesOK).result
            [] OTHER ->
                 out.posted = GetReportAsTelegraph(logs, <<now, now, now>>, 0,
                                  numDaysForReport1, numDaysForReport2,
                                  QueriesOK, out.tb).result

----------------------------------------------------------------------------
(* Claims about the outcome of the commands *)

\* C11: when the store query of either window of the requested report
\* fails, the `report' command ends with a non-zero status and writes no
\* report, in every format and with or without a summarizer credential.
C11_FailedQueryFailsCommand ==
    (out.op = "report" /\ out.recent # QueriesOK) =>
        /\ out.exit # 0
        /\ ~out.wrote
        /\ out.printed = NoText

\* the command called the collaborator or store operation of that name
Called(o, name) == \E k \in DOMAIN o.calls : o.calls[k] = name
\* the command logged that message
Logged(o, message) == \E k \in DOMAIN o.logged : o.logged[k] = message

\* a `save' has run whose insert succeeded and whose lookup was answered
SavedAndLookedUp(o) ==
    /\ o.op = "save" /\ o.id # 0
    /\ Called(o, "LookupLocation")
    /\ ~Logged(o, "Failed to lookup location")

\* the Location row of an IP that has one
RecordOf(locs, ip) == CHOOSE r \in Range(locs) : r.IP = ip

\* C12: when `save' runs for an IP that has a Location row, whether of a
\* country or of "Unknown" (the insert having succeeded and the lookup
\* having been answered), the provider is not called, SaveLocation is not
\* called, the Location table is left as it was, and the location of the
\* new event is set to the country name of the row (when the storage
\* carries out the update).
C12_CachedCountryIsReused ==
    [][ ( /\ out.op = "none" /\ SavedAndLookedUp(out')
          /\ ~UniqueIP(locations, out'.ip) )
        => /\ out'.cachedID = RecordOf(locations, out'.ip).ID
           /\ ~Called(out', "GetGeolocation")
           /\ ~Called(out', "SaveLocation")
           /\ locations' = locations
           /\ Called(out', "UpdateBanActionLocation")
           /\ out'.exit = 0
           /\ ~Logged(out', "Failed to update location of ban action") =>
                  logs'[out'.id].Location
                      = RecordOf(locations, out'.ip).CountryName ]_vars

\* C12 witness: a `save' has reused a cached "Unknown": the provider was not
\* called and the new event, not the first of its IP, is located "Unknown".
C12_Witness ==
    /\ SavedAndLookedUp(out) /\ out.cachedID > 0
    /\ locations[out.cachedID].CountryName = unknownLocation
    /\ ~Called(out, "GetGeolocation")
    /\ out.id > 1
    /\ logs[out.id].Location = unknownLocation

\* C13: when `save' runs for an IP with no Location row and the provider
\* answers an error or an empty country name, or no API key is configured
\* (the storage carrying out every operation), one Location row (ip,
\* "Unknown") is added, the location of the new event is "Unknown", and on
\* a cache that was empty ListUnknownIPs returns exactly that row.
C13_FailedFetchCachesUnknown ==
    [][ ( /\ out.op = "none" /\ SavedAndLookedUp(out')
          /\ UniqueIP(locations, out'.ip)
          /\ \/ ~Called(out', "GetGeolocation")
             \/ out'.reply.err # nil
             \/ out'.reply.CountryName = ""
          /\ ~Logged(out', "Failed to save location")
          /\ ~Logged(out', "Failed to update location of ban action") )
        => /\ locations' = Append(locations,
                                  Location(Len(locations) + 1, out'.ip,
                                           unknownLocation))
           /\ logs'[out'.id].Location = unknownLocation
           /\ out'.exit = 0
           /\ Logged(out', "Failed to fetch location") <=> out'.reply.err # nil
           /\ locations = <<>> =>
                  /\ ListUnknownIPs(locations', TRUE).err = nil
                  /\ ListUnknownIPs(locations', TRUE).result
                         = <<Location(1, out'.ip, unknownLocation)>> ]_vars

\* C13 witness: the provider has answered the first `save' with an error;
\* the cache holds one row, "Unknown", and the event is located "Unknown".
C13_Witness ==
    /\ SavedAndLookedUp(out) /\ out.cachedID = 0
    /\ Called(out, "GetGeolocation") /\ out.reply.err = ErrFetch
    /\ locations = <<Location(1, out.ip, unknownLocation)>>
    /\ logs[out.id].Location = unknownLocation

\* C14: once the insert of a `save' has succeeded, whatever fails afterwards
\* (the lookup, the provider, the cache insert, the update of the event),
\* the command ends with status 0 and the event stays in the Event Store
\* as it was inserted, its location null, "Unknown" or a country name; the
\* failures are logged.
C14_EnrichmentFailureIsNotFatal ==
    (out.op = "save" /\ out.id # 0) =>
        /\ out.exit = 0
        /\ out.id \in DOMAIN logs
        /\ logs[out.id].ID = out.id
        /\ logs[out.id].Protocol = out.protocol
        /\ logs[out.id].IP = out.ip
        /\ logs[out.id].DeletedAt = NULL
        /\ logs[out.id].Location \in {NULL, unknownLocation} \cup CountryNames
        /\ \/ Logged(out, "Failed to lookup location")
           \/ Logged(out, "Failed to update location of ban action")
           => logs[out.id].Location = NULL

\* C14 witness: both the cache insert and the update of the event have
\* failed; the command has ended with status 0, the event is in the Event
\* Store with a null location.
C14_Witness ==
    /\ out.op = "save" /\ out.id # 0 /\ out.exit = 0
    /\ Logged(out, "Failed to save location")
    /\ Logged(out, "Failed to update location of ban action")
    /\ logs[out.id].Location = NULL

\* C15: on a storage that answers, LookupLocation returns no error; for an
\* IP with no Location row (on an empty cache in particular) it returns the
\* zero value, whose ID is 0; for an IP with a row, of "Unknown" included,
\* it returns the row, whose ID is not 0.  processSave takes exactly the
\* answers with ID 0 for `not cached'.
C15_LookupTellsNotCachedFromUnknown ==
    /\ \A ip \in IPs :
          LET r == LookupLocation(locations, ip, TRUE)
          IN  /\ r.err = nil
              /\ UniqueIP(locations, ip) =>
                     r.result = ZeroLocation /\ r.result.ID = 0
              /\ ~UniqueIP(locations, ip) =>
                     /\ r.result.ID # 0
                     /\ r.result = RecordOf(locations, ip)
    /\ SavedAndLookedUp(out) =>
          /\ out.cachedID >= 0
          /\ out.cachedID = 0 <=> Called(out, "SaveLocation")
          /\ out.cachedID # 0 =>
                 locations[out.cachedID] = RecordOf(locations, out.ip)

\* C15 witness: the cache holds one row, of "Unknown"; the last `save' has
\* found it, and the other IP has no row.
C15_Witness ==
    /\ SavedAndLookedUp(out) /\ out.cachedID = 1
    /\ Len(locations) = 1
    /\ locations[1].CountryName = unknownLocation
    /\ \E ip \in IPs : LookupLocation(locations, ip, TRUE).result.ID = 0

\* C16: no step changes the location of an event that is in the Event
\* Store; an event enters by `save' alone, with the location its own
\* follow-up update has written (null when the update did not happen);
\* resolve_unknown_ips leaves the Event Store as it is.
C16_EventLocationWrittenOnce ==
    [][ /\ \A i \in DOMAIN logs :
              i \in DOMAIN logs' /\ logs'[i].Location = logs[i].Location
        /\ Len(logs') > Len(logs) =>
              /\ out'.op = "save"
              /\ Len(logs') = Len(logs) + 1
              /\ out'.id = Len(logs')
              /\ logs'[out'.id].Location \in {NULL, out'.fetched}
        /\ out'.op = "resolve_unknown_ips" => logs' = logs ]_vars

\* C16 witness: resolve_unknown_ips has resolved the Location row of an IP
\* to a country; an event of that IP, saved before, is still "Unknown".
C16_Witness ==
    /\ out.op = "resolve_unknown_ips" /\ out.exit = 0
    /\ \E i \in DOMAIN logs, j \in DOMAIN locations :
          /\ logs[i].IP = locations[j].IP
          /\ logs[i].Location = unknownLocation
          /\ locations[j].CountryName \in CountryNames

----------------------------------------------------------------------------
(* Further claims about the aggregator and the encodings *)

RECURSIVE SumOfCounts(_)
SumOfCounts(kvs) ==
    IF kvs = <<>> THEN 0
    ELSE kvs[Len(kvs)].Value + SumOfCounts(SubSeq(kvs, 1, Len(kvs) - 1))

\* the events with a location
Located(rows) == SelectSeq(rows, LAMBDA r : r.Location # NULL)

\* C17: in each window of a generated report, totalCount is the number of
\* the events the window's query matched, those with a null location
\* included; the country counts are the tally of the locations of the
\* matched events that have one, so their sum is the number of matched
\* events with a non-null location; the protocol counts sum to totalCount.
C17_TotalsCountNullLocations ==
    (out.op = "generateReport" /\ out.err = nil) =>
        \A window \in {1, 2} :
            LET matched == EventsSince(Since(out.clk[window + 1],
                                             out.offsetDays, window))
                sub == SubOf(out.report, window)
            IN  /\ sub.TotalCount = Len(matched)
                /\ SumOfCounts(sub.CountryCounts) = Len(Located(matched))
                /\ sub.CountryCounts = Tally(CountriesOf(matched))
                /\ SumOfCounts(sub.ProtocolCounts) = sub.TotalCount
                /\ \A i \in DOMAIN sub.CountryCounts :
                       sub.CountryCounts[i].Key # NULL

\* C17 witness: the second window has matched three events, one of them
\* with a null location: totalCount is 3, the country counts sum to 2.
C17_Witness ==
    /\ out.op = "generateReport" /\ out.err = nil
    /\ out.report.LastDaysReport2.TotalCount = 3
    /\ SumOfCounts(out.report.LastDaysReport2.CountryCounts) = 2
    /\ \E i \in DOMAIN logs : logs[i].Location = NULL

\* the label of window 1 or 2 of a report asked at instant t
LabelOf(t, offsetDays, window) ==
    FromTo(Since(t, offsetDays, window), t + offsetDays)

\* C18: for generateReport with a negative offset, each window counts every
\* visible event created at or after (the clock) + offset - (days of the
\* window), with no upper bound: the events created after the reference
\* instant (the clock) + offset are counted too, while the label of the
\* window runs from the lower bound to the reference instant.
C18_NoUpperBoundOnWindow ==
    (out.op = "generateReport" /\ out.err = nil /\ out.offsetDays < 0) =>
        \A window \in {1, 2} :
            LET lower == Since(out.clk[window + 1], out.offsetDays, window)
                sub == SubOf(out.report, window)
            IN  /\ sub.TotalCount
                       = Cardinality({i \in DOMAIN logs :
                                         /\ logs[i].DeletedAt = NULL
                                         /\ logs[i].CreatedAt >= lower})
                /\ sub.ProtocolCounts = Tally(ProtocolsOf(EventsSince(lower)))
                /\ sub.FromTo = LabelOf(out.clk[1], out.offsetDays, window)
                /\ sub.FromTo[3] = out.clk[1] + out.offsetDays

\* C18 witness: a report asked with offset -7 has counted, in its first
\* window, an event created one day before the call, six days after the
\* instant at which the label of the window ends.
C18_Witness ==
    /\ out.op = "generateReport" /\ out.err = nil
    /\ out.offsetDays = 0 - numDaysBeforeForOlderReport
    /\ Len(logs) = 1
    /\ logs[1].CreatedAt = out.clk[1] - 1
    /\ logs[1].CreatedAt > out.report.LastDaysReport1.FromTo[3]
    /\ out.report.LastDaysReport1.TotalCount = 1

\* the members of an encoded object other than the one of the given name
Without(object, name) == SelectSeq(object, LAMBDA m : m[1] # name)

PageURL == << <<"https://telegra.ph/", "Balog-Report">> >>

\* C20: once a telegraph-format report has been rendered and handed to
\* telegra.ph, a failure of the publication ends the command with a
\* non-zero status, neither the HTML body nor a URL written; a success
\* ends it with status 0, the URL of the page written and not the HTML
\* body; whether the summarizer was called or not, and whether it failed.
C20_PublishingDecidesTheOutcome ==
    HTMLPosted =>
        /\ ~out.post =>
               /\ out.exit # 0
               /\ ~out.wrote
               /\ out.printed = NoText
               /\ Logged(out, "Failed to generate report")
        /\ out.post =>
               /\ out.exit = 0
               /\ out.wrote
               /\ out.printed = PageURL
               /\ out.printed # out.posted

\* C20 witness: the summarizer has failed and then telegra.ph has refused
\* the page: the command has ended with status 1.
C20_Witness ==
    /\ HTMLPosted /\ out.called /\ out.reply # "ok"
    /\ ~out.post /\ out.exit = 1 /\ ~out.wrote

----------------------------------------------------------------------------
(* Claims about the collaborators and the Location Cache *)

\* how many times x stands in seq
Count(seq, x) == Cardinality({k \in DOMAIN seq : seq[k] = x})

\* the IPs the provider was asked about, in order
AskedIPs(calls) == [k \in DOMAIN calls |-> calls[k].IP]

\* the Location rows that are "Unknown"
Unknowns(locs) == ListUnknownIPs(locs, TRUE).result

\* C21 (as amended): no collaborator is called again.  One `save' calls
\* the provider at most once, and only when the IP had no Location row.
\* One resolve_unknown_ips calls FetchLocation once for each row that was
\* "Unknown" when the job started, in their order: the provider is called
\* exactly once per such row when an API key is configured, and not at
\* all when none is (or when the listing failed).  One `report' calls the
\* summarizer at most once and CreatePageWithHTML at most once.
C21_CollaboratorsCalledOnce ==
    [][ out.op = "none" =>
          /\ out'.op = "save" =>
                 /\ Count(out'.calls, "GetGeolocation") <= 1
                 /\ Called(out', "GetGeolocation") =>
                        out'.cachedID = 0 /\ UniqueIP(locations, out'.ip)
          /\ out'.op = "resolve_unknown_ips" =>
                 AskedIPs(out'.calls)
                     = IF out'.key # NULL /\ out'.listOK
                       THEN IPsOf(Unknowns(locations)) ELSE <<>>
          /\ out'.op = "report" =>
                 /\ Count(out'.calls, "generateInsight") <= 1
                 /\ Count(out'.calls, "CreatePageWithHTML") <= 1
                 /\ out'.called <=> Called(out', "generateInsight")
                 /\ out'.posted # NoText <=> Called(out', "CreatePageWithHTML")
      ]_vars

\* C21 witness: resolve_unknown_ips, with an API key, has asked the
\* provider about two "Unknown" rows, once each, the first answer being an
\* error.
C21_Witness ==
    /\ out.op = "resolve_unknown_ips" /\ out.key # NULL
    /\ Len(out.calls) = 2
    /\ out.calls[1].IP # out.calls[2].IP
    /\ out.calls[1].reply.err # nil
    /\ Len(locations) = 2

\* C21 (as stated): one resolve_unknown_ips calls the provider exactly once
\* for each row that was "Unknown" when the job started.
C21_ResolveCallsProviderOncePerRecord ==
    [][ (out.op = "none" /\ out'.op = "resolve_unknown_ips"
         /\ out'.listOK) =>
            AskedIPs(out'.calls) = IPsOf(Unknowns(locations)) ]_vars

\* C22: over the commands in any order, no step removes a Location row or
\* changes its id or IP; the country name of a row changes only in
\* resolve_unknown_ips, only from "Unknown", and only to the country name,
\* not empty, that the provider answered without error for the IP of the
\* row.
C22_CacheOnlyResolvesUnknown ==
    [][ \A i \in DOMAIN locations :
          /\ i \in DOMAIN locations'
          /\ locations'[i].ID = locations[i].ID
          /\ locations'[i].IP = locations[i].IP
          /\ locations'[i].CountryName # locations[i].CountryName =>
                 /\ out'.op = "resolve_unknown_ips"
                 /\ locations[i].CountryName = unknownLocation
                 /\ locations'[i].CountryName # ""
                 /\ \E k \in DOMAIN out'.calls :
                        /\ out'.calls[k].IP = locations[i].IP
                        /\ out'.calls[k].reply.err = nil
                        /\ out'.calls[k].reply.CountryName
                               = locations'[i].CountryName ]_vars

\* C22 witness: resolve_unknown_ips has turned the first of two rows from
\* "Unknown" into the country the provider answered; the second row, for
\* which the provider answered an error or nothing, is still "Unknown".
C22_Witness ==
    /\ out.op = "resolve_unknown_ips" /\ out.exit = 0
    /\ Len(locations) = 2 /\ Len(out.calls) = 2
    /\ locations[1].CountryName \in CountryNames
    /\ out.calls[1].reply.CountryName = locations[1].CountryName
    /\ locations[2].CountryName = unknownLocation

\* C23: when the insert of a `save' fails, the command ends at once with
\* status 1, the failure logged: no lookup, no call of the provider, no
\* write to the cache; no event is added and both tables are as before.
C23_FailedInsertAbortsSave ==
    [][ (out.op = "none" /\ out'.op = "save" /\ out'.id = 0) =>
          /\ out'.exit = 1
          /\ out'.calls = <<"SaveBanAction">>
          /\ out'.logged = <<"Failed to save ban action">>
          /\ logs' = logs
          /\ locations' = locations ]_vars

\* C23 witness: the insert of a second `save' has failed; the Event Store
\* holds the one event of the first.
C23_Witness ==
    /\ out.op = "save" /\ out.id = 0 /\ out.exit = 1
    /\ Len(logs) = 1
    /\ ~Called(out, "LookupLocation")

\* C25: resolve_unknown_ips, when the listing is answered, succeeds and
\* returns one entry for each row that was "Unknown" when the job started,
\* in their order, each with the country name now stored for it or with
\* "Unknown"; a failure of the provider or of the update for a row leaves
\* that row "Unknown" and the rest is processed; afterwards ListUnknownIPs
\* returns exactly the entries returned as "Unknown".
C25_ResolveReportsEveryUnknown ==
    [][ (out.op = "none" /\ out'.op = "resolve_unknown_ips"
         /\ out'.listOK) =>
          /\ out'.exit = 0
          /\ Len(out'.result) = Len(Unknowns(locations))
          /\ \A k \in DOMAIN out'.result :
                 /\ out'.result[k].ID = Unknowns(locations)[k].ID
                 /\ out'.result[k].IP = Unknowns(locations)[k].IP
                 /\ out'.result[k] = RecordOf(locations', out'.result[k].IP)
                 /\ out'.result[k].CountryName
                        \in CountryNames \cup {unknownLocation}
          /\ Unknowns(locations')
                 = SelectSeq(out'.result,
                             LAMBDA r : r.CountryName = unknownLocation)
          /\ out'.printed
                 = <<"Newly resolved IPs:",
                     Len(out'.result) - Len(Unknowns(locations')),
                     "Still unresolved:", Len(Unknowns(locations'))>> ]_vars

\* C25 witness: of two "Unknown" rows, the provider has failed for the
\* first and answered a country for the second: the job has succeeded and
\* returned the first as "Unknown", the second as resolved.
C25_Witness ==
    /\ out.op = "resolve_unknown_ips" /\ out.exit = 0
    /\ Len(out.result) = 2 /\ Len(out.calls) = 2
    /\ out.calls[1].reply.err # nil
    /\ out.result[1].CountryName = unknownLocation
    /\ out.result[2].CountryName \in CountryNames
    /\ Unknowns(locations) = <<out.result[1]>>

\* the last line of the HTML rendering, as the format string writes it with
\* the project URL for the target of the link
AttributionLine ==
    <<"<i>report generated by <a href=\"", projectURL, "\">balog</a></i>">>

\* C24: the HTML rendering of every report holds the attribution line, a
\* link whose target is the project URL, whatever the report counts.
C24_AttributionLinksToProject ==
    HTMLPosted =>
        /\ \E i \in DOMAIN out.posted : out.posted[i] = AttributionLine
        /\ LET html == GetReportAsTelegraph(logs, <<now, now, now>>, 0,
                            numDaysForReport1, numDaysForReport2,
                            QueriesOK, out.tb).result
           IN  html[Len(html)] = AttributionLine

\* C26: in every interleaving of two `save' processes, no two Location rows
\* have the same IP; a cache insert fails only by the uniqueness
\* constraint, and only for an IP that has a row.
C26_NoTwoRecordsForOneIP ==
    /\ \A i, j \in DOMAIN locations :
          locations[i].IP = locations[j].IP => i = j
    /\ \A p \in Procs :
          /\ procs[p].storeErr \in {nil, ErrUnique}
          /\ procs[p].storeErr = ErrUnique =>
                 \E i \in DOMAIN locations : locations[i].IP = procs[p].ip

\* C26 witness: two processes have saved the same IP, both having found it
\* not cached and both having called SaveLocation; the cache holds one row.
C26_Witness ==
    /\ \A p \in Procs : procs[p].pc = "done" /\ procs[p].cachedID = 0
    /\ \A p, q \in Procs : procs[p].ip = procs[q].ip
    /\ Len(locations) = 1
    /\ Len(logs) = 2

\* C27: a `report' command, in every format, with or without a summarizer
\* credential, whatever fails, leaves the Event Store and the Location
\* Cache as they were.
C27_ReportOnlyReads ==
    [][ out'.op = "report" => logs' = logs /\ locations' = locations ]_vars

\* C27 witness: a telegraph report with insights has been published from an
\* Event Store of three events and a cache of two rows.
C27_Witness ==
    /\ out.op = "report" /\ out.format = "telegraph" /\ out.exit = 0
    /\ out.called /\ out.posted # NoText
    /\ Len(logs) = 3 /\ Len(locations) = 2

\* C28: every successful SaveBanAction adds one event, whose id is the id
\* of no event of the store, whose protocol and IP are those given, created
\* now and with a null location; no step changes the id, the protocol, the
\* IP or the creation time of an event of the store.
C28_InsertIsFreshAndLeavesOthers ==
    [][ /\ \A i \in DOMAIN logs :
              /\ i \in DOMAIN logs'
              /\ logs'[i].ID = logs[i].ID
              /\ logs'[i].Protocol = logs[i].Protocol
              /\ logs'[i].IP = logs[i].IP
              /\ logs'[i].CreatedAt = logs[i].CreatedAt
        /\ \A p \in Procs :
              (procs[p].pc = "idle" /\ procs'[p].pc = "inserted") =>
                  /\ procs'[p].id # 0
                  /\ \A i \in DOMAIN logs : logs[i].ID # procs'[p].id
                  /\ Len(logs') = Len(logs) + 1
                  /\ logs'[Len(logs')]
                         = BanActionLog(procs'[p].id, procs'[p].protocol, now,
                                        procs'[p].ip)
                  /\ logs'[Len(logs')].Location = NULL ]_vars

\* C28 witness: a second event has just been inserted, with id 2 and a null
\* location, into a store whose first event has its location set.
C28_Witness ==
    /\ Len(logs) = 2
    /\ logs[1].Location # NULL /\ logs[2].Location = NULL
    /\ \E p \in Procs : procs[p].pc = "inserted" /\ procs[p].id = 2
    /\ logs[1].ID # logs[2].ID

\* no key stands twice in a table
KeysOnce(kvs) == \A i, j \in DOMAIN kvs : kvs[i].Key = kvs[j].Key => i = j

\* C29: in each window of every generated report, a protocol and a country
\* stand at most once as a key, every count listed is at least 1, and the
\* protocol counts sum to the totalCount of the window.
C29_KeysOnceCountsPositive ==
    (out.op = "generateReport" /\ out.err = nil) =>
        \A window \in {1, 2} :
            LET sub == SubOf(out.report, window)
            IN  /\ KeysOnce(sub.ProtocolCounts)
                /\ KeysOnce(sub.CountryCounts)
                /\ \A i \in DOMAIN sub.ProtocolCounts :
                       sub.ProtocolCounts[i].Value >= 1
                /\ \A i \in DOMAIN sub.CountryCounts :
                       sub.CountryCounts[i].Value >= 1
                /\ SumOfCounts(sub.ProtocolCounts) = sub.TotalCount
                /\ SumOfCounts(sub.CountryCounts) <= sub.TotalCount

\* C29 witness: the second window of a report lists ftp with count 2 and
\* ssh with count 1, its totalCount being 3.
C29_Witness ==
    /\ out.op = "generateReport" /\ out.err = nil
    /\ out.report.LastDaysReport2.ProtocolCounts
           = <<keyValue("ftp", 2), keyValue("ssh", 1)>>
    /\ out.report.LastDaysReport2.TotalCount = 3

\* the older report that processReport asks for after the recent report of
\* the last call, the clock reading t2 and t3 at its two queries
OlderReport(t2, t3) ==
    generateReport(logs, <<t2, t2, t3>>,
                   out.offsetDays - numDaysBeforeForOlderReport,
                   numDaysForReport1, numDaysForReport2, QueriesOK).result

\* C30: for a recent report generateReport(offset, 7, 30), offset <= 0, and
\* the older report generateReport(offset - 7, 7, 30) generated after it
\* on the same Event Store, now or later (the clock having advanced by
\* less than 7 days), each window of the older report counts, for every protocol and
\* country, at least what the same window of the recent report counts, and
\* its totalCount is not smaller.
C30_OlderReportCountsRecent ==
    (out.op = "generateReport" /\ out.err = nil) =>
        \A t2 \in now..(ReportNow + MaxDrift) :
            \A t3 \in t2..(ReportNow + MaxDrift) :
                \A window \in {1, 2} :
                    LET recent == SubOf(out.report, window)
                        older == SubOf(OlderReport(t2, t3), window)
                    IN  /\ older.TotalCount >= recent.TotalCount
                        /\ AtMost(recent.ProtocolCounts, older.ProtocolCounts)
                        /\ AtMost(recent.CountryCounts, older.CountryCounts)

\* C30 witness: the first window of a recent report counts one event; the
\* first window of the older report counts it and an older event.
C30_Witness ==
    /\ out.op = "generateReport" /\ out.err = nil /\ out.offsetDays = 0
    /\ out.report.LastDaysReport1.TotalCount = 1
    /\ OlderReport(out.clk[3], out.clk[3]).LastDaysReport1.TotalCount = 2

====
